---------------------------- MODULE Spec2Model ----------------------------
(***************************************************************************)
(* A model of the scan engine of the Git Reporter desktop application      *)
(* (src/git_reporter_desktop/app.py): the MainWindow trigger handlers, the *)
(* calendar thread schedule_checker, the MonitorWorker thread, the         *)
(* CheckAllNowWorker thread and the TestAllStatusWorker thread, over one   *)
(* list of projects with up to two branches and one webhook each.          *)
(*                                                                         *)
(* Threads of the foreground kind ("gui", "sched") have a program counter  *)
(* pc[t]; worker threads keep theirs in their own record.  Slots of the    *)
(* GUI thread run one at a time (Qt event loop), so a slot starts only     *)
(* from pc["gui"] = "idle", and a click starts a slot only when the button *)
(* it comes from is enabled.                                               *)
(***************************************************************************)
EXTENDS Integers, Sequences, FiniteSets, TLC

(***************************************************************************)
(* Bounds of the model.                                                    *)
(***************************************************************************)
MaxRev == 3           \* head revisions are 1..MaxRev
MaxTicks == 2         \* the wall clock advances at most MaxTicks times
TickSeconds == 1800   \* seconds per advance of the wall clock
Epoch == 100000       \* time.time() at program start, in seconds
Freq == 60            \* the webhook's 'frequency', in minutes
MaxMon == 2           \* MonitorWorker objects alive at once
MaxChk == 2           \* CheckAllNowWorker objects alive at once
MonitorInterval == 1  \* monitor_interval, in seconds

(***************************************************************************)
(* The configuration: self.projects, a list of project entries.  An entry   *)
(* holds 'name', 'path', 'branches', 'filters' and 'webhooks'.  A missing  *)
(* 'name' or 'path' is the empty text (the value project.get(...) tests as *)
(* false); every path that is not empty names the one repository of the    *)
(* model, so that the key "path|branch" of the two maps is the branch.     *)
(* Filters is the 'filters' entry the project dialog writes with its       *)
(* defaults; None is the entry of a projects file that holds               *)
(* "filters": null.  'webhooks' is a list in every entry: Webhooks, or the *)
(* empty list of a project saved without a webhook.                        *)
(***************************************************************************)
BranchSet == {"main", "dev"}
Webhooks ==
    <<[webhook |-> "w1", frequency |-> Freq, format |-> "Raw commit messages",
       template |-> ""]>>
Filters == [commits |-> TRUE, merges |-> FALSE, tags |-> FALSE, filetypes |-> <<>>]
None == [None |-> TRUE]
RepoPath == "repo"

\* the keys "path|branch" of the two maps; "" is the key of a project without
\* configured branches (lines 154 and 173: branch '' stands for the branch
\* checked out)
KeySet == BranchSet \cup {""}

\* get_data (lines 886-893) of the project dialog
Project(name, path, brs, flt, whs) ==
    [name |-> name, path |-> path, branches |-> brs, filters |-> flt, webhooks |-> whs]

\* the locals of a worker that is not inside the project loop
NoProject == Project("", "", <<>>, None, <<>>)

\* lines 154, 419, 427: project.get('branches', []) or ['']
BranchList(project) == IF project.branches = <<>> THEN <<"">> ELSE project.branches

Revs == 1..MaxRev
Times == {Epoch + k * TickSeconds : k \in 0..MaxTicks}
Threads == {"gui", "sched"}
SendResults == {"ok", "fail", "raise"}

VARIABLES
    projects,        \* MainWindow.projects, the list every worker is given
    pc,              \* pc[t], t \in Threads: where the thread is in its code
    monitor_lock,    \* holder of MainWindow.monitor_lock: "free", "gui", "sched"
    monitor_thread,  \* MainWindow.monitor_thread: a MonitorWorker id, 0 = None
    mon,             \* the MonitorWorker objects
    check_worker,    \* MainWindow.check_worker: a CheckAllNowWorker id, 0 = None
    chk,             \* the CheckAllNowWorker objects
    tst,             \* the TestAllStatusWorker held in MainWindow.worker
    doneq,           \* done_signal deliveries queued for the GUI thread
                     \* (Qt.QueuedConnection): n of them, fresh of which were
                     \* posted since the GUI thread last returned to its loop
    btn,             \* enabled flag of the buttons
    stop_event,      \* MainWindow.schedule_timer_stop
    head,            \* repository: head revision of every branch
    checkedOut,      \* repository: the branch checked out in the working tree
    clock,           \* time.time()
    ev,              \* what the last step did (a dispatch call, a warning, ...)
    hist             \* history of the run, for stating the claims

vars == <<projects, pc, monitor_lock, monitor_thread, mon, check_worker, chk, tst, doneq,
          btn, stop_event, head, checkedOut, clock, ev, hist>>

(***************************************************************************)
(* Events: what the last step did.  type is "send" (a dispatch call),      *)
(* "throttled" (the throttle gate skipped the webhook), "observe"          *)
(* (rev-parse HEAD gave rev while the map held stored), "filter" (the      *)
(* filter block decided res for revision rev), "warning" (a                *)
(* QMessageBox.warning of the handler named by), "created" (a worker was   *)
(* created and started) or "none".  gate is the last-sent time the         *)
(* throttle gate read; retry says that the latest dispatch for the branch  *)
(* was for the same revision and failed, the head unchanged since.  Other  *)
(* types: "skip" (a project or a unit was left with an error message),     *)
(* "unit" (a unit of the manual pass was processed up to its filters),     *)
(* "exception" (an exception left the unit), "invalid" (check_all_now      *)
(* found a malformed entry).  log says that the step emitted log_signal    *)
(* (or, in the GUI thread, called append_log).  path is the project path   *)
(* of the unit whose GitMonitor queries the step made, dir the working     *)
(* directory the git commands of those queries ran in.  For a "send" of a  *)
(* pass, wh is the webhook entry the message went to, fmt and template the *)
(* format selector and the template handed to format_message.              *)
(***************************************************************************)
NoEv ==
    [type |-> "none", src |-> "none", id |-> 0, branch |-> "", w |-> 0,
     now |-> 0, last |-> 0, rev |-> 0, stored |-> 0, res |-> "none", by |-> "none",
     gate |-> 0, retry |-> FALSE, log |-> FALSE, path |-> "", dir |-> "",
     fmt |-> "", template |-> "",
     wh |-> [webhook |-> "", frequency |-> 0, format |-> "", template |-> ""]]

(***************************************************************************)
(* MonitorWorker.__init__: both maps start empty.  A revision 0 stands for *)
(* "no entry"; a last-sent time 0 is the default of last_sent_times.get.   *)
(* p is the position of the iterator of 'for project in self.projects',    *)
(* project the entry it gave last (the locals of lines 152-156), b and w   *)
(* the positions in the branch and the webhook loop.                       *)
(***************************************************************************)
NoMon ==
    [pc |-> "none", running |-> FALSE,
     last_commit_hashes |-> [b \in KeySet |-> 0],
     last_sent_times |-> [b \in KeySet |-> [w \in 1..Len(Webhooks) |-> 0]],
     now |-> 0, p |-> 1, project |-> NoProject, b |-> 1, w |-> 1, latest |-> 0,
     slept |-> 0]

MonitorWorker_init == [NoMon EXCEPT !.pc = "start"]

\* connected: done_signal is still connected to the slot on_done; total and
\* count are the locals of lines 419-420, p, project, b and w as in MonitorWorker.
NoChk ==
    [pc |-> "none", should_stop |-> FALSE, p |-> 1, project |-> NoProject,
     b |-> 1, w |-> 1, count |-> 0, total |-> 0, connected |-> FALSE, fmt |-> ""]

\* TestAllStatusWorker: p is the position of its loop over self.projects
NoTst == [pc |-> "none", p |-> 1]

\* lines 1178-1179: the combo box next to 'Check All Now' is filled with
\* MESSAGE_FORMATS and shows the first of them; the user leaves it there.
check_format_combo == "Raw commit messages"

\* lines 1589-1590 and 406-410: fmt is the current text of that combo box
CheckAllNowWorker_init ==
    [NoChk EXCEPT !.pc = "run", !.connected = TRUE, !.fmt = check_format_combo]

\* QThread.isRunning(): true from start() until run() has returned.
isRunning(worker) == worker.pc \notin {"none", "finished"}

\* A MonitorWorker that is between the start of a pass and its end.
MonPassActive(m) == m.pc \in {"project", "branch", "changes", "webhook"}

\* A CheckAllNowWorker that is between the start of its pass and its end.
ChkPassActive(c) == c.pc \in {"project", "branch", "webhook"}

Min(S) == CHOOSE x \in S : \A y \in S : x <= y
Max(S) == CHOOSE x \in S : \A y \in S : x >= y

FreeMon == {i \in 1..MaxMon : ~isRunning(mon[i]) /\ i # monitor_thread}
FreeChk == {i \in 1..MaxChk : ~isRunning(chk[i]) /\ i # check_worker}


(***************************************************************************)
(* History of the run:                                                     *)
(*   cur     the MonitorWorker created last;                               *)
(*   lastOk  per key, the time of the latest send that returned True;      *)
(*   quiet   a scheduled pass has ended with every stored revision equal   *)
(*           to the branch's head, and no head has changed since;          *)
(*   mafter, cafter  the pass the worker is in started while quiet held,   *)
(*           and no head has changed since;                                *)
(*   failed  per branch: the revision whose dispatch by a scheduled pass   *)
(*           failed, when that was the latest dispatch for the branch and  *)
(*           its head has not changed since (0: none); kept only when      *)
(*           track is "failed"; when track is "throttled", the revision    *)
(*           whose dispatch the throttle gate skipped instead;             *)
(*   snap    per MonitorWorker, self.projects as it was when the pass the  *)
(*           worker is in began; kept only when track is "projects".       *)
(* Init decides track.                                                     *)
(***************************************************************************)
NoHist ==
    [cur |-> 0,
     track |-> "none",
     failed |-> [b \in KeySet |-> 0],
     snap |-> [i \in 1..MaxMon |-> <<>>],
     lastOk |-> [b \in KeySet |-> [w \in 1..Len(Webhooks) |-> 0]],
     quiet |-> FALSE,
     mafter |-> [i \in 1..MaxMon |-> FALSE],
     cafter |-> [i \in 1..MaxChk |-> FALSE]]

Ev(type, by) == [NoEv EXCEPT !.type = type, !.by = by]

(***************************************************************************)
(* Init: MainWindow.__init__ has created the lock and started the calendar *)
(* thread (lines 1266-1271); it is about to call start_monitoring when     *)
(* 'auto_start_monitoring' is set (line 1280), and is idle otherwise.      *)
(***************************************************************************)
InitProjects(ps, h) ==
    /\ projects \in ps
    /\ pc \in {[gui |-> g, sched |-> "poll"] : g \in {"start_monitoring", "idle"}}
    /\ monitor_lock = "free"
    /\ monitor_thread = 0
    /\ mon = [i \in 1..MaxMon |-> NoMon]
    /\ check_worker = 0
    /\ chk = [i \in 1..MaxChk |-> NoChk]
    /\ tst = NoTst
    /\ doneq = [n |-> 0, fresh |-> 0]
    /\ btn = [start |-> TRUE, stop |-> FALSE, check |-> TRUE, cancel |-> FALSE, test |-> TRUE]
    /\ stop_event = FALSE
    /\ head \in [BranchSet -> {1}]
    /\ checkedOut = "main"
    /\ clock = Epoch
    /\ ev = NoEv
    /\ hist = h

\* one project, of the repository, with one webhook
InitWith(cfgs, fs, h) ==
    InitProjects({<<Project("p1", RepoPath, brs, flt, Webhooks)>> : brs \in cfgs, flt \in fs}, h)

InitCfg(cfgs) == InitWith(cfgs, {Filters}, NoHist)

Init == InitCfg({<<"main">>, <<"main", "dev">>})

(***************************************************************************)
(* threading.Lock: acquire succeeds only on a free lock, whoever asks (the *)
(* lock is not reentrant).                                                 *)
(***************************************************************************)
\* a lock that excludes nobody
AcquirableBroken(lock, t) == TRUE

Acquirable(lock, t) == lock = "free"

MonitorRunning == monitor_thread # 0 /\ isRunning(mon[monitor_thread])

(***************************************************************************)
(* The Qt event loop of the GUI thread delivers the posted events before   *)
(* the input events of an iteration: a click is handled only when every    *)
(* queued delivery was posted after the loop was last entered.             *)
(***************************************************************************)
InputEvent ==
    /\ doneq.n = doneq.fresh
    /\ doneq' = [doneq EXCEPT !.fresh = 0]

(***************************************************************************)
(* MainWindow.start_monitoring, run by thread t (the GUI thread for the    *)
(* button and the auto start, the calendar thread from schedule_checker).  *)
(***************************************************************************)
start_monitoring_click ==
    /\ pc["gui"] = "idle" /\ btn.start
    /\ InputEvent
    /\ pc' = [pc EXCEPT !["gui"] = "start_monitoring"]
    /\ ev' = NoEv
    /\ UNCHANGED <<monitor_lock, monitor_thread, mon, check_worker, chk, tst, btn, stop_event, head, checkedOut, clock, hist>>
    /\ UNCHANGED projects

\* lines 1379-1382: take the lock, test the running worker; the early return
\* leaves the 'with', which releases the lock.  Back in schedule_checker the
\* outer 'with' then releases a lock that is not held: RuntimeError ends the
\* calendar thread.
start_monitoring_enter(t) ==
    /\ pc[t] = "start_monitoring"
    /\ Acquirable(monitor_lock, t)
    /\ IF MonitorRunning
       THEN /\ ev' = Ev("warning", "start_monitoring")
            /\ pc' = [pc EXCEPT ![t] = IF t = "gui" THEN "idle" ELSE "crashed"]
            /\ monitor_lock' = "free"
       ELSE /\ ev' = NoEv
            /\ monitor_lock' = t
            /\ pc' = [pc EXCEPT ![t] = "start_new"]
    /\ UNCHANGED <<monitor_thread, mon, check_worker, chk, tst, doneq, btn,
                   stop_event, head, checkedOut, clock, hist>>
    /\ UNCHANGED projects

\* lines 1383-1392: create and start the worker, leave the lock, set the buttons.
start_monitoring_create(t) ==
    /\ pc[t] = "start_new"
    /\ FreeMon # {}
    /\ LET id == Min(FreeMon) IN
         /\ mon' = [i \in 1..MaxMon |->
                      IF i = id THEN MonitorWorker_init
                      ELSE IF isRunning(mon[i]) THEN mon[i] ELSE NoMon]
         /\ monitor_thread' = id
         /\ hist' = [hist EXCEPT !.cur = id, !.mafter[id] = FALSE]
         /\ ev' = [Ev("created", "start_monitoring") EXCEPT !.src = "monitor", !.id = id]
    /\ monitor_lock' = "free"
    /\ btn' = [btn EXCEPT !.start = FALSE, !.stop = TRUE]
    /\ pc' = [pc EXCEPT ![t] = IF t = "gui" THEN "idle" ELSE "crashed"]
    /\ UNCHANGED <<check_worker, chk, tst, doneq, stop_event, head, checkedOut, clock>>
    /\ UNCHANGED projects

(***************************************************************************)
(* MainWindow.stop_monitoring (lines 1394-1404).                           *)
(***************************************************************************)
stop_monitoring_click ==
    /\ pc["gui"] = "idle" /\ btn.stop
    /\ InputEvent
    /\ pc' = [pc EXCEPT !["gui"] = "stop_monitoring"]
    /\ ev' = NoEv
    /\ UNCHANGED <<monitor_lock, monitor_thread, mon, check_worker, chk, tst, btn, stop_event, head, checkedOut, clock, hist>>
    /\ UNCHANGED projects

\* lines 1395-1397: take the lock; a running worker is told to stop and waited for.
stop_monitoring_enter ==
    /\ pc["gui"] = "stop_monitoring"
    /\ Acquirable(monitor_lock, "gui")
    /\ ev' = NoEv
    /\ IF MonitorRunning
       THEN /\ mon' = [mon EXCEPT ![monitor_thread].running = FALSE]
            /\ monitor_lock' = "gui"
            /\ pc' = [pc EXCEPT !["gui"] = "stop_wait"]
            /\ UNCHANGED <<monitor_thread, btn>>
       ELSE /\ monitor_thread' = 0
            /\ btn' = [btn EXCEPT !.start = TRUE, !.stop = FALSE]
            /\ pc' = [pc EXCEPT !["gui"] = "idle"]
            /\ UNCHANGED <<mon, monitor_lock>>
    /\ UNCHANGED <<check_worker, chk, tst, doneq, stop_event, head, checkedOut, clock, hist>>
    /\ UNCHANGED projects

\* lines 1398-1404: wait() returns once run() has returned.
\* a wait that returns at once
WaitReturnsAtOnce(worker) == TRUE

WaitReturns(worker) == ~isRunning(worker)

stop_monitoring_wait ==
    /\ pc["gui"] = "stop_wait"
    /\ WaitReturns(mon[monitor_thread])
    /\ monitor_thread' = 0
    /\ monitor_lock' = "free"
    /\ btn' = [btn EXCEPT !.start = TRUE, !.stop = FALSE]
    /\ pc' = [pc EXCEPT !["gui"] = "idle"]
    /\ ev' = NoEv
    /\ UNCHANGED <<mon, check_worker, chk, tst, doneq, stop_event, head, checkedOut, clock, hist>>
    /\ UNCHANGED projects

(***************************************************************************)
(* MainWindow.schedule_checker (lines 1437-1445), the calendar thread.  A  *)
(* poll whose (HH:MM, weekday) matches no entry changes nothing.           *)
(***************************************************************************)
schedule_checker_exit ==
    /\ pc["sched"] = "poll" /\ stop_event
    /\ pc' = [pc EXCEPT !["sched"] = "exited"]
    /\ ev' = NoEv
    /\ UNCHANGED <<monitor_lock, monitor_thread, mon, check_worker, chk, tst, doneq,
                   btn, stop_event, head, checkedOut, clock, hist>>
    /\ UNCHANGED projects

\* line 1441: the current (HH:MM, weekday) matches a schedule entry.
schedule_checker_match ==
    /\ pc["sched"] = "poll" /\ ~stop_event
    /\ pc' = [pc EXCEPT !["sched"] = "sched_lock"]
    /\ ev' = NoEv
    /\ UNCHANGED <<monitor_lock, monitor_thread, mon, check_worker, chk, tst, doneq,
                   btn, stop_event, head, checkedOut, clock, hist>>
    /\ UNCHANGED projects

\* lines 1442-1444: take the lock; start_monitoring is called while it is held.
schedule_checker_locked ==
    /\ pc["sched"] = "sched_lock"
    /\ Acquirable(monitor_lock, "sched")
    /\ IF MonitorRunning
       THEN /\ pc' = [pc EXCEPT !["sched"] = "poll"]
            /\ UNCHANGED monitor_lock
       ELSE /\ monitor_lock' = "sched"
            /\ pc' = [pc EXCEPT !["sched"] = "start_monitoring"]
    /\ ev' = NoEv
    /\ UNCHANGED <<monitor_thread, mon, check_worker, chk, tst, doneq, btn,
                   stop_event, head, checkedOut, clock, hist>>
    /\ UNCHANGED projects

(***************************************************************************)
(* Text.  A string is the sequence of its characters; the output of a git  *)
(* command is the sequence of its lines.                                   *)
(***************************************************************************)
\* str.lower(), on the letters the texts below use
Lower(s) ==
    [k \in 1..Len(s) |->
        CASE s[k] = "M" -> "m" [] s[k] = "E" -> "e" [] s[k] = "R" -> "r"
          [] s[k] = "G" -> "g" [] OTHER -> s[k]]

\* pat in s
Contains(s, pat) ==
    \E k \in 1..(Len(s) - Len(pat) + 1) : SubSeq(s, k, k + Len(pat) - 1) = pat

\* s.endswith(t)
EndsWith(s, t) ==
    Len(t) <= Len(s) /\ SubSeq(s, Len(s) - Len(t) + 1, Len(s)) = t

\* s.strip()
RECURSIVE Strip(_)
Strip(s) ==
    IF s = <<>> THEN s
    ELSE IF Head(s) = " " THEN Strip(Tail(s))
    ELSE IF s[Len(s)] = " " THEN Strip(SubSeq(s, 1, Len(s) - 1))
    ELSE s

\* s.split(',')
RECURSIVE Split(_)
Split(s) ==
    IF \A k \in 1..Len(s) : s[k] # ","
    THEN <<s>>
    ELSE LET k == CHOOSE j \in 1..Len(s) : s[j] = "," /\ \A h \in 1..(j - 1) : s[h] # ","
         IN <<SubSeq(s, 1, k - 1)>> \o Split(SubSeq(s, k + 1, Len(s)))

\* line 203: [ft.strip() for ft in filters['filetypes'].split(',') if ft.strip()]
FileTypes(s) ==
    LET parts == Split(s)
        stripped == [k \in 1..Len(parts) |-> Strip(parts[k])]
    IN SelectSeq(stripped, LAMBDA t : t # <<>>)

MergeWord == <<"m", "e", "r", "g", "e">>
TagsLine == <<"T", "a", "g", "s">>

(***************************************************************************)
(* The repository as the git commands see it: 'git log' and 'git status    *)
(* --porcelain' of get_changes(), 'git tag --contains'.                    *)
(***************************************************************************)
LogLines == << <<"c", "1">> >>
StatusLines == << <<"M", " ", "a", ".", "c", "p", "p">> >>
GitOutputs ==
    {[status |-> st, commits |-> co, tags |-> <<>>] :
        st \in {<<>>, StatusLines}, co \in {<<>>, LogLines}}

\* lines 187-207 with the merges predicate, when enabled, deciding in place of
\* the commits predicate
FilterEvalMergesFirst(flt, status, commits, tags) ==
    LET c1 == flt.commits /\ commits # <<>>
        fc1 == IF c1 THEN commits ELSE <<>>
        merged == SelectSeq(commits, LAMBDA l : Contains(Lower(l), MergeWord))
        c2 == flt.merges /\ commits # <<>> /\ merged # <<>>
        fc2 == IF c2 THEN merged ELSE fc1
        c3 == flt.tags /\ tags # <<>>
        fc3 == IF c3 THEN Append(fc2, TagsLine) ELSE fc2
        types == FileTypes(flt.filetypes)
        kept == SelectSeq(status, LAMBDA l : \E k \in 1..Len(types) :
                                                 EndsWith(l, types[k]))
        c4 == flt.filetypes # <<>> /\ status # <<>> /\ kept # <<>>
    IN [send |-> (IF flt.merges THEN c2 ELSE c1) \/ c3 \/ c4,
        filtered_commits |-> fc3,
        filtered_status |-> IF c4 THEN kept ELSE <<>>]

\* MonitorWorker.run lines 187-207 (and CheckAllNowWorker.run lines 472-492).
FilterEval(flt, status, commits, tags) ==
    LET c1 == flt.commits /\ commits # <<>>
        fc1 == IF c1 THEN commits ELSE <<>>
        merged == SelectSeq(commits, LAMBDA l : Contains(Lower(l), MergeWord))
        c2 == flt.merges /\ commits # <<>> /\ merged # <<>>
        fc2 == IF c2 THEN merged ELSE fc1
        c3 == flt.tags /\ tags # <<>>
        fc3 == IF c3 THEN Append(fc2, TagsLine) ELSE fc2
        types == FileTypes(flt.filetypes)
        kept == SelectSeq(status, LAMBDA l : \E k \in 1..Len(types) :
                                                 EndsWith(l, types[k]))
        c4 == flt.filetypes # <<>> /\ status # <<>> /\ kept # <<>>
    IN [send |-> c1 \/ c2 \/ c3 \/ c4,
        filtered_commits |-> fc3,
        filtered_status |-> IF c4 THEN kept ELSE <<>>]

(***************************************************************************)
(* The filter block applied to a Filters entry and to the outputs of the   *)
(* git commands, both drawn from the sets below; ev keeps the inputs and   *)
(* the decision.                                                           *)
(***************************************************************************)
FileTypeTexts ==
    {<<>>,
     <<".", "c", "p", "p">>,
     <<".", "h", ",", " ", ".", "c", "p", "p">>,
     <<" ", ",", " ">>}

FilterConfigs ==
    [commits : BOOLEAN, merges : BOOLEAN, tags : BOOLEAN, filetypes : FileTypeTexts]

TxtLine == <<"M", " ", "b", ".", "t", "x", "t">>
CppLine == <<"M", " ", "a", ".", "c", "p", "p">>
CppBakLine == <<"M", " ", "a", ".", "c", "p", "p", "~">>

StatusOutputs ==
    {<<>>, <<TxtLine>>, <<CppLine>>, <<TxtLine, CppLine>>, <<CppBakLine>>}

LogOutputs ==
    {<<>>,
     << <<"c", "1">> >>,
     << <<"M", "e", "r", "g", "e", " ", "x">> >>,
     << <<"c", "1">>, <<"M", "E", "R", "G", "E">> >>,
     << <<"e", "m", "e", "r", "g", "e", "d">> >>,
     << <<"m", "e", "r", " ", "g", "e">> >>}

TagOutputs == {<<>>, << <<"v", "1">> >>}

\* lines 223 and 510: 'filtered_status or status', 'filtered_commits or commits'
\* the raw text whatever the filters kept
PayloadRaw(filtered, raw) == raw

Payload(filtered, raw) == IF filtered # <<>> THEN filtered ELSE raw

FilterEval_apply ==
    /\ ev = NoEv
    /\ \E f \in FilterConfigs, st \in StatusOutputs, co \in LogOutputs, tg \in TagOutputs :
         LET r == FilterEval(f, st, co, tg) IN
         ev' = [type |-> "FilterEval", filters |-> f, status |-> st, commits |-> co,
                tags |-> tg, send |-> r.send,
                arg_status |-> Payload(r.filtered_status, st),
                arg_commits |-> Payload(r.filtered_commits, co)]
    /\ UNCHANGED <<pc, monitor_lock, monitor_thread, mon, check_worker, chk, tst, doneq,
                   btn, stop_event, head, checkedOut, clock, hist>>
    /\ UNCHANGED projects

(***************************************************************************)
(* MonitorWorker.format_message (lines 261-374), a static method, on       *)
(* strings.  status and commits are '' where the caller had None or '':    *)
(* the function only tests them for truth ('commits or ...', 'if status'). *)
(* summary is the text lines 264-331 build out of the git commands they    *)
(* run: the report, or one of the two '[Summary generation failed ...]'    *)
(* texts.  The code fence of the built-in formats, three backquotes, is    *)
(* written ''' (a string of this language cannot hold a backquote).        *)
(***************************************************************************)
\* str.replace: every occurrence of old, left to right, not overlapping
RECURSIVE Replace(_, _, _)
Replace(s, old, new) ==
    IF Len(s) < Len(old) THEN s
    ELSE IF SubSeq(s, 1, Len(old)) = old
         THEN new \o Replace(SubSeq(s, Len(old) + 1, Len(s)), old, new)
         ELSE SubSeq(s, 1, 1) \o Replace(SubSeq(s, 2, Len(s)), old, new)

format_message(fmt, project_name, status, commits, branch, template, summary) ==
    LET n == Len(commits)
        nl == CHOOSE k \in 1..(n + 1) :
                  /\ k = n + 1 \/ SubSeq(commits, k, k) = "\n"
                  /\ \A j \in 1..(k - 1) : SubSeq(commits, j, j) # "\n"
        first_line == SubSeq(commits, 1, nl - 1)
        uncommitted == IF status # "" THEN "\nUncommitted Changes:\n'''\n" \o status \o "\n'''"
                       ELSE ""
    IN
    IF fmt = "AI Summary" THEN summary
    ELSE IF template # ""
    THEN Replace(Replace(Replace(Replace(template,
             "{project}", project_name),
             "{branch}", branch),
             "{commit_message}", commits),
             "{files_changed}", status)
    ELSE IF fmt = "Raw commit messages"
    THEN "**" \o project_name \o "**\nRecent Commits:\n'''\n"
              \o (IF commits # "" THEN commits ELSE "No recent commits.") \o "\n'''"
    ELSE IF fmt = "Short interpretation"
    THEN IF commits = "" THEN "**" \o project_name \o "**\nNo recent commits."
         ELSE "**" \o project_name \o "**\nLatest: " \o first_line
    ELSE IF fmt = "Changelog style"
    THEN "**" \o project_name \o " Changelog**" \o uncommitted
              \o (IF commits # "" THEN "\nRecent Commits:\n'''\n" \o commits \o "\n'''" ELSE "")
    ELSE IF fmt = "Daily summary"
    THEN "**" \o project_name \o " Daily Summary**"
              \o (IF commits # "" THEN "\nCommits today:\n'''\n" \o commits \o "\n'''" ELSE "")
              \o uncommitted
    ELSE "**" \o project_name \o "**\nNo data."

\* one call, as the workers make it (lines 224 and 509): project_name is
\* "name [branch]", branch '' for a project without configured branches
format_message_apply ==
    /\ ev = NoEv
    /\ \E fmt \in {"Raw commit messages", "Short interpretation", "Changelog style",
                   "Daily summary", "AI Summary", "Weekly digest"},
          template \in {"", "{commit_message}", "{project} {branch}: {commit_message} {files_changed}",
                        "new commits"},
          status \in {"", "M a.cpp"},
          commits \in {"", "c1", "c2\nc1"},
          branch \in {"", "main"},
          summary \in {"[Summary generation failed: not a git repo]",
                       "[Summary generation failed: e]",
                       "Branch: main\nLatest commit: c1 (by a)\n"} :
         LET project_name == "p1 [" \o branch \o "]" IN
         ev' = [type |-> "format_message", fmt |-> fmt, project_name |-> project_name,
                status |-> status, commits |-> commits, branch |-> branch,
                template |-> template,
                msg |-> format_message(fmt, project_name, status, commits, branch,
                                       template, summary)]
    /\ UNCHANGED <<pc, monitor_lock, monitor_thread, mon, check_worker, chk, tst, doneq,
                   btn, stop_event, head, checkedOut, clock, hist>>
    /\ UNCHANGED projects

(***************************************************************************)
(* Change detection and throttle of MonitorWorker.run.                     *)
(***************************************************************************)
\* lines 179-180: last_hash == latest_commit means "no new commits".
\* a comparison that never finds the revision known
IsNewAlways(hashes, key, latest) == TRUE

IsNew(hashes, key, latest) == hashes[key] # latest

\* line 185: self.last_commit_hashes[branch_key] = latest_commit
\* the map is not written at line 185 (the write is left for after the dispatch)
RecordSeenLater(hashes, key, latest) == hashes

RecordSeen(hashes, key, latest) == [hashes EXCEPT ![key] = latest]

\* line 217: if now - last_sent < freq * 60: skip
\* a gate that also skips when exactly freq minutes have passed
ThrottledLe(now, last_sent, freq) == now - last_sent <= freq * 60

Throttled(now, last_sent, freq) == now - last_sent < freq * 60

\* lines 234-238: only a send that returned True sets last_sent_times[wh_id].
\* the time is stored whatever the send returned
RecordSentAlways(sent, key, w, now, res) == [sent EXCEPT ![key][w] = now]

RecordSent(sent, key, w, now, res) ==
    IF res = "ok" THEN [sent EXCEPT ![key][w] = now] ELSE sent

\* the iterator of 'for project in self.projects' (lines 151 and 421) gives
\* the entry after position p of the list as the list is now, or ends the loop.
MonNextProject(m) ==
    IF m.p < Len(projects)
    THEN [m EXCEPT !.pc = "project", !.p = m.p + 1, !.project = NoProject,
                   !.b = 1, !.w = 1, !.latest = 0]
    ELSE [m EXCEPT !.pc = "cycle", !.p = 1, !.project = NoProject,
                   !.b = 1, !.w = 1, !.latest = 0]

\* the next unit of the pass: the next branch, or the end of the branch loop.
MonNextBranch(m) ==
    IF m.b < Len(BranchList(m.project))
    THEN [m EXCEPT !.pc = "branch", !.b = m.b + 1, !.w = 1, !.latest = 0]
    ELSE MonNextProject(m)

MonNextWebhook(m) ==
    IF m.w < Len(m.project.webhooks) THEN [m EXCEPT !.w = m.w + 1] ELSE MonNextBranch(m)

\* lines 208-213: 'if not send: continue', else the webhook loop, which ends
\* at once over an empty list.
\* the webhook loop entered whatever the filter block decided
AfterFilterDispatch(m, send) ==
    IF m.project.webhooks # <<>> THEN [m EXCEPT !.pc = "webhook", !.w = 1]
    ELSE MonNextBranch(m)

AfterFilter(m, send) ==
    IF send /\ m.project.webhooks # <<>> THEN [m EXCEPT !.pc = "webhook", !.w = 1]
    ELSE MonNextBranch(m)

\* a dispatch call: discord.send_message to webhook w for the unit's branch, at
\* time now; last is the time of the latest successful send to that key so far,
\* rev the revision notified and stored the revision the last-seen map holds.
SendEv(src, id, branch, w, now, last, rev, stored, res) ==
    [NoEv EXCEPT !.type = "send", !.src = src, !.id = id, !.branch = branch, !.w = w,
                 !.now = now, !.last = last, !.rev = rev, !.stored = stored, !.res = res,
                 !.log = TRUE]

\* an error message of a worker about the project or the unit it leaves
SkipEv(src, id, by) ==
    [Ev("skip", by) EXCEPT !.src = src, !.id = id, !.log = TRUE]

HistSent(h, branch, w, now, res) ==
    IF res = "ok" THEN [h EXCEPT !.lastOk[branch][w] = now] ELSE h

\* the working tree after 'git checkout branch' (lines 164-165, 451-452): the
\* command is not run for the branch '', and its failure is not looked at.
TreeAfterCheckout(branch, co) ==
    IF branch = "" THEN checkedOut ELSE IF co THEN branch ELSE checkedOut

(***************************************************************************)
(* MonitorWorker.run (lines 145-256), worker i.                            *)
(***************************************************************************)
\* line 146: self.running = True
MonitorWorker_run_enter(i) ==
    /\ mon[i].pc = "start"
    /\ mon' = [mon EXCEPT ![i].running = TRUE, ![i].pc = "while"]
    /\ ev' = NoEv
    /\ UNCHANGED <<pc, monitor_lock, monitor_thread, check_worker, chk, tst, doneq,
                   btn, stop_event, head, checkedOut, clock, hist>>
    /\ UNCHANGED projects

\* line 149: while self.running
\* a loop that never reads the flag
WhileRunningAlways(m) == TRUE

WhileRunning(m) == m.running

\* lines 149-151: while self.running: now = time.time(), the project loop
\* begins; lines 253-256 after the loop.
MonitorWorker_run_while(i) ==
    /\ mon[i].pc = "while"
    /\ IF WhileRunning(mon[i])
       THEN /\ mon' = [mon EXCEPT ![i].now = clock, ![i].pc = "project", ![i].p = 1]
            /\ hist' = [hist EXCEPT !.mafter[i] = hist.quiet,
                                    !.snap[i] = IF hist.track = "projects"
                                                THEN projects ELSE <<>>]
            /\ ev' = NoEv
       ELSE /\ mon' = [mon EXCEPT ![i].pc = "finished"]
            /\ hist' = hist
            /\ ev' = [Ev("stopped", "MonitorWorker") EXCEPT
                         !.src = "monitor", !.id = i, !.log = TRUE]
    /\ UNCHANGED <<pc, monitor_lock, monitor_thread, check_worker, chk, tst, doneq,
                   btn, stop_event, head, checkedOut, clock>>
    /\ UNCHANGED projects

\* lines 151-161: the entry the iterator gives, its locals; a path that does
\* not exist skips the project.  The iterator ends the loop when the list has
\* become shorter than its position.
MonitorWorker_run_project(i) ==
    /\ mon[i].pc = "project"
    /\ LET m == mon[i] IN
       IF m.p > Len(projects)
       THEN /\ mon' = [mon EXCEPT ![i] = MonNextProject(m)]
            /\ ev' = NoEv
       ELSE \E exists \in BOOLEAN :
            LET project == projects[m.p] IN
            IF exists /\ project.path # ""
            THEN /\ mon' = [mon EXCEPT ![i] =
                              [m EXCEPT !.pc = "branch", !.project = project, !.b = 1]]
                 /\ ev' = NoEv
            ELSE /\ mon' = [mon EXCEPT ![i] = MonNextProject(m)]
                 /\ ev' = SkipEv("monitor", i, "MonitorWorker")
    /\ UNCHANGED <<pc, monitor_lock, monitor_thread, check_worker, chk, tst, doneq,
                   btn, stop_event, head, checkedOut, clock, hist>>
    /\ UNCHANGED projects

\* lines 162-185: checkout, GitMonitor(), rev-parse HEAD, compare, record.
MonitorWorker_run_branch(i) ==
    /\ mon[i].pc = "branch"
    /\ \E co \in BOOLEAN, init \in BOOLEAN, rp \in BOOLEAN :
         LET m == mon[i]
             branch == BranchList(m.project)[m.b]
             tree == TreeAfterCheckout(branch, co)
             latest_commit == IF rp THEN head[tree] ELSE 0
         IN /\ checkedOut' = tree
            /\ IF ~init \/ latest_commit = 0
               THEN /\ mon' = [mon EXCEPT ![i] = MonNextBranch(m)]
                    /\ ev' = SkipEv("monitor", i, "MonitorWorker")
               ELSE /\ ev' = [Ev("observe", "MonitorWorker") EXCEPT
                                 !.src = "monitor", !.id = i, !.branch = branch,
                                 !.rev = latest_commit,
                                 !.stored = m.last_commit_hashes[branch],
                                 !.log = ~IsNew(m.last_commit_hashes, branch, latest_commit)]
                    /\ IF ~IsNew(m.last_commit_hashes, branch, latest_commit)
                       THEN mon' = [mon EXCEPT ![i] = MonNextBranch(m)]
                       ELSE mon' = [mon EXCEPT ![i] =
                                [m EXCEPT !.last_commit_hashes =
                                              RecordSeen(m.last_commit_hashes, branch, latest_commit),
                                          !.latest = latest_commit,
                                          !.pc = "changes"]]
    /\ UNCHANGED <<pc, monitor_lock, monitor_thread, check_worker, chk, tst, doneq,
                   btn, stop_event, head, clock, hist>>
    /\ UNCHANGED projects

\* GitMonitor._run_git_command (monitor.py 27-49): os.chdir(self.project_path),
\* then subprocess.run without a cwd argument.  The working directory belongs
\* to the process and no lock is held: a worker of another thread that is at
\* its own GitMonitor queries (the MonitorWorker before get_changes, line 186;
\* the CheckAllNowWorker before rev-parse and get_changes, lines 464-473) may
\* change it between the two calls, so the command runs in this worker's
\* directory or in the other's.
QueryDirs(src, id, path) ==
    {path}
      \cup {mon[i].project.path : i \in {k \in 1..MaxMon :
                 mon[k].pc = "changes" /\ ~(src = "monitor" /\ k = id)}}
      \cup {chk[j].project.path : j \in {k \in 1..MaxChk :
                 chk[k].pc = "branch" /\ ~(src = "check" /\ k = id)}}

\* An exception leaves MonitorWorker.run, which has no handler around its
\* pass: the thread ends there, running still True, or PyQt aborts the whole
\* process on the unhandled exception, whichever the installed PyQt does.
Aborted(worker) == IF isRunning(worker) THEN [worker EXCEPT !.pc = "finished"] ELSE worker

\* lines 186-212: get_changes() and the filters.  filters.get(...) at line 190
\* raises AttributeError on a 'filters' entry that is None.
MonitorWorker_run_changes(i) ==
    /\ mon[i].pc = "changes"
    /\ LET m == mon[i]
           branch == BranchList(m.project)[m.b]
       IN
       IF m.project.filters = None
       THEN \E abort \in BOOLEAN :
            /\ ev' = [Ev("exception", "MonitorWorker") EXCEPT
                         !.src = "monitor", !.id = i, !.branch = branch,
                         !.rev = m.latest,
                         !.res = IF abort THEN "abort" ELSE "ended"]
            /\ IF abort
               THEN /\ mon' = [k \in 1..MaxMon |-> Aborted(mon[k])]
                    /\ chk' = [k \in 1..MaxChk |-> Aborted(chk[k])]
                    /\ tst' = NoTst
                    /\ pc' = [t \in Threads |-> "aborted"]
               ELSE /\ mon' = [mon EXCEPT ![i].pc = "finished"]
                    /\ UNCHANGED <<pc, chk, tst>>
       ELSE \E out \in GitOutputs, dir \in QueryDirs("monitor", i, m.project.path) :
            LET f == FilterEval(m.project.filters, out.status, out.commits, out.tags)
            IN /\ mon' = [mon EXCEPT ![i] = AfterFilter(m, f.send)]
               /\ ev' = [Ev("filter", "MonitorWorker") EXCEPT
                            !.src = "monitor", !.id = i, !.branch = branch,
                            !.rev = m.latest,
                            !.res = IF f.send THEN "qualifies" ELSE "skip",
                            !.log = ~f.send,
                            !.path = m.project.path, !.dir = dir]
               /\ UNCHANGED <<pc, chk, tst>>
    /\ UNCHANGED <<monitor_lock, monitor_thread, check_worker, doneq,
                   btn, stop_event, head, checkedOut, clock, hist>>
    /\ UNCHANGED projects

\* lines 213-246: one webhook of the unit: throttle gate, then one send.
MonitorWorker_run_webhook(i) ==
    /\ mon[i].pc = "webhook"
    /\ LET m == mon[i]
           branch == BranchList(m.project)[m.b]
           wh == m.project.webhooks[m.w]
           last_sent == m.last_sent_times[branch][m.w]
       IN IF Throttled(m.now, last_sent, wh.frequency)
          THEN /\ mon' = [mon EXCEPT ![i] = MonNextWebhook(m)]
               /\ ev' = [Ev("throttled", "MonitorWorker") EXCEPT
                            !.src = "monitor", !.id = i, !.branch = branch, !.w = m.w,
                            !.now = m.now, !.gate = last_sent, !.log = TRUE]
               /\ hist' = IF hist.track = "throttled"
                          THEN [hist EXCEPT !.failed[branch] = m.latest]
                          ELSE hist
          ELSE \E res \in SendResults :
               /\ mon' = [mon EXCEPT ![i] =
                            MonNextWebhook([m EXCEPT !.last_sent_times =
                                RecordSent(m.last_sent_times, branch, m.w, m.now, res)])]
               /\ ev' = [SendEv("monitor", i, branch, m.w, m.now,
                                hist.lastOk[branch][m.w], m.latest,
                                m.last_commit_hashes[branch], res)
                           EXCEPT !.gate = last_sent, !.retry = (hist.failed[branch] = m.latest),
                                  !.fmt = wh.format, !.template = wh.template, !.wh = wh]
               /\ hist' = [HistSent(hist, branch, m.w, m.now, res)
                             EXCEPT !.failed[branch] =
                                 IF hist.track = "failed" /\ res # "ok" THEN m.latest ELSE 0]
    /\ UNCHANGED <<pc, monitor_lock, monitor_thread, check_worker, chk, tst, doneq,
                   btn, stop_event, head, checkedOut, clock>>
    /\ UNCHANGED projects

\* the head revision a unit of branch would observe
HeadOf(branch) == IF branch = "" THEN head[checkedOut] ELSE head[branch]

\* every unit of the configuration has its head in the map hashes
AllSeen(hashes) ==
    \A q \in 1..Len(projects) :
        \A k \in 1..Len(BranchList(projects[q])) :
            hashes[BranchList(projects[q])[k]] = HeadOf(BranchList(projects[q])[k])

\* lines 247-248: 'Monitoring cycle complete.'
MonitorWorker_run_cycle(i) ==
    /\ mon[i].pc = "cycle"
    /\ mon' = [mon EXCEPT ![i].pc = IF MonitorInterval = 0 THEN "while" ELSE "sleep",
                          ![i].slept = 0]
    /\ hist' = [hist EXCEPT
                   !.quiet = hist.quiet \/ AllSeen(mon[i].last_commit_hashes),
                   !.mafter[i] = FALSE,
                   !.snap[i] = <<>>]
    /\ ev' = NoEv
    /\ UNCHANGED <<pc, monitor_lock, monitor_thread, check_worker, chk, tst, doneq,
                   btn, stop_event, head, checkedOut, clock>>
    /\ UNCHANGED projects

\* lines 249-252: the wait between passes, one second at a time: the flag is
\* read, then time.sleep(1).
MonitorWorker_run_sleep(i) ==
    /\ mon[i].pc = "sleep"
    /\ mon' = [mon EXCEPT ![i] =
                 IF ~mon[i].running THEN [mon[i] EXCEPT !.pc = "while", !.slept = 0]
                 ELSE IF mon[i].slept + 1 >= MonitorInterval
                      THEN [mon[i] EXCEPT !.pc = "while", !.slept = 0]
                      ELSE [mon[i] EXCEPT !.slept = mon[i].slept + 1]]
    /\ ev' = IF ~mon[i].running
             THEN [Ev("break", "MonitorWorker") EXCEPT !.src = "monitor", !.id = i]
             ELSE NoEv
    /\ UNCHANGED <<pc, monitor_lock, monitor_thread, check_worker, chk, tst, doneq,
                   btn, stop_event, head, checkedOut, clock, hist>>
    /\ UNCHANGED projects

(***************************************************************************)
(* The environment: commits arrive, time passes.                           *)
(***************************************************************************)
\* the branches some project names, and the branch checked out when a project
\* names none
WatchedBranches ==
    UNION {{IF BranchList(projects[q])[k] = "" THEN checkedOut
            ELSE BranchList(projects[q])[k] : k \in 1..Len(BranchList(projects[q]))} :
           q \in 1..Len(projects)}

Commit ==
    /\ \E b \in WatchedBranches, r \in Revs :
         /\ r # head[b]
         /\ head' = [head EXCEPT ![b] = r]
         /\ hist' = [hist EXCEPT !.quiet = FALSE,
                                 !.mafter = [i \in 1..MaxMon |-> FALSE],
                                 !.cafter = [i \in 1..MaxChk |-> FALSE],
                                 !.failed[b] = 0]
    /\ ev' = NoEv
    /\ UNCHANGED <<pc, monitor_lock, monitor_thread, mon, check_worker, chk, tst,
                   doneq, btn, stop_event, checkedOut, clock>>
    /\ UNCHANGED projects

Tick ==
    /\ clock < Epoch + MaxTicks * TickSeconds
    /\ clock' = clock + TickSeconds
    /\ ev' = NoEv
    /\ UNCHANGED <<pc, monitor_lock, monitor_thread, mon, check_worker, chk, tst,
                   doneq, btn, stop_event, head, checkedOut, hist>>
    /\ UNCHANGED projects

(***************************************************************************)
(* MainWindow.check_all_now (lines 1544-1647).  clicked is connected to    *)
(* the slot twice (lines 1195 and 1264), so one click runs it twice.       *)
(***************************************************************************)
check_now_click ==
    /\ pc["gui"] = "idle" /\ btn.check
    /\ InputEvent
    /\ pc' = [pc EXCEPT !["gui"] = "check_all_now_1"]
    /\ ev' = NoEv
    /\ UNCHANGED <<monitor_lock, monitor_thread, mon, check_worker, chk, tst, btn, stop_event, head, checkedOut, clock, hist>>
    /\ UNCHANGED projects

\* line 1567: the guard against a double start.
\* a guard that never sees the worker
CheckGuardOff(ref, workers) == FALSE

CheckGuard(ref, workers) == ref # 0 /\ isRunning(workers[ref])

\* line 1575: an entry without a name or without a path ('webhooks' is a list
\* in every entry).
Malformed(project) == project.name = "" \/ project.path = ""

\* lines 1563-1639: guard and warning, or the validation of every entry and its
\* error message, or a new worker, started.
check_all_now ==
    /\ pc["gui"] \in {"check_all_now_1", "check_all_now_2"}
    /\ IF CheckGuard(check_worker, chk)
       THEN /\ ev' = Ev("warning", "check_all_now")
            /\ UNCHANGED <<check_worker, chk, btn, hist>>
       ELSE IF \E k \in 1..Len(projects) : Malformed(projects[k])
       THEN /\ ev' = [Ev("invalid", "check_all_now") EXCEPT !.log = TRUE]
            /\ btn' = [btn EXCEPT !.check = TRUE]
            /\ UNCHANGED <<check_worker, chk, hist>>
       ELSE /\ FreeChk # {}
            /\ LET id == Min(FreeChk) IN
                 /\ chk' = [chk EXCEPT ![id] = CheckAllNowWorker_init]
                 /\ check_worker' = id
                 /\ hist' = [hist EXCEPT !.cafter[id] = FALSE]
                 /\ ev' = [Ev("created", "check_all_now") EXCEPT !.src = "check", !.id = id]
            /\ btn' = [btn EXCEPT !.check = FALSE, !.cancel = TRUE]
    /\ pc' = [pc EXCEPT !["gui"] =
                 IF pc["gui"] = "check_all_now_1" THEN "check_all_now_2" ELSE "idle"]
    /\ UNCHANGED <<monitor_lock, monitor_thread, mon, tst, doneq, stop_event, head,
                   checkedOut, clock>>
    /\ UNCHANGED projects

\* lines 1649-1656: the flag is set and the reference dropped at once.
cancel_check_all_now ==
    /\ pc["gui"] = "idle" /\ btn.cancel
    /\ InputEvent
    /\ IF check_worker # 0
       THEN /\ chk' = [chk EXCEPT ![check_worker].should_stop = TRUE]
            /\ btn' = [btn EXCEPT !.cancel = FALSE]
            /\ check_worker' = 0
       ELSE UNCHANGED <<chk, btn, check_worker>>
    /\ ev' = NoEv
    /\ UNCHANGED <<pc, monitor_lock, monitor_thread, mon, tst, stop_event, head,
                   checkedOut, clock, hist>>
    /\ UNCHANGED projects

\* lines 1613-1625: the signals of the worker self.check_worker refers to now
\* are disconnected.
Disconnect(workers, ref) ==
    IF ref # 0 THEN [workers EXCEPT ![ref].connected = FALSE] ELSE workers

\* lines 1605-1608: the buttons are back to their idle state.
\* a slot that leaves the buttons as they are
OnDoneButtonsKept(b) == b

OnDoneButtons(b) == [b EXCEPT !.check = TRUE, !.cancel = FALSE]

\* lines 1600-1634: the slot of done_signal, delivered through the event queue.
\* Once closeEvent has been accepted the window is not visible, and the slot
\* returns at line 1604 with the buttons and the reference as they were.
on_done ==
    /\ pc["gui"] \in {"idle", "closed"} /\ doneq.n > 0
    /\ doneq' = [n |-> doneq.n - 1, fresh |-> 0]
    /\ IF pc["gui"] = "closed"
       THEN UNCHANGED <<btn, chk, check_worker, pc>>
       ELSE /\ btn' = OnDoneButtons(btn)
            /\ chk' = Disconnect(chk, check_worker)
            /\ IF check_worker # 0 /\ isRunning(chk[check_worker])
               THEN /\ pc' = [pc EXCEPT !["gui"] = "on_done_wait"]
                    /\ UNCHANGED check_worker
               ELSE /\ check_worker' = 0
                    /\ pc' = pc
    /\ ev' = NoEv
    /\ UNCHANGED <<monitor_lock, monitor_thread, mon, tst, stop_event, head,
                   checkedOut, clock, hist>>
    /\ UNCHANGED projects

\* lines 1628-1631: self.check_worker.wait(), then the reference is dropped.
on_done_wait ==
    /\ pc["gui"] = "on_done_wait"
    /\ WaitReturns(chk[check_worker])
    /\ check_worker' = 0
    /\ pc' = [pc EXCEPT !["gui"] = "idle"]
    /\ ev' = NoEv
    /\ UNCHANGED <<monitor_lock, monitor_thread, mon, chk, tst, doneq, btn, stop_event,
                   head, checkedOut, clock, hist>>
    /\ UNCHANGED projects

(***************************************************************************)
(* CheckAllNowWorker.run (lines 413-534), worker j.                        *)
(***************************************************************************)
\* lines 422, 447, 502: if self._should_stop
\* a worker that never reads the flag
StopRequestedNever(c) == FALSE

StopRequested(c) == c.should_stop

ChkNextProject(c) ==
    IF c.p < Len(projects)
    THEN [c EXCEPT !.pc = "project", !.p = c.p + 1, !.project = NoProject,
                   !.b = 1, !.w = 1]
    ELSE [c EXCEPT !.pc = "finally", !.p = 1, !.project = NoProject, !.b = 1, !.w = 1]

\* lines 458, 467, 497, 522: count += 1, and the progress signals
ChkNextBranch(c) ==
    IF c.b < Len(BranchList(c.project))
    THEN [c EXCEPT !.pc = "branch", !.b = c.b + 1, !.w = 1, !.count = c.count + 1]
    ELSE ChkNextProject([c EXCEPT !.count = c.count + 1])

ChkNextWebhook(c) ==
    IF c.w < Len(c.project.webhooks) THEN [c EXCEPT !.w = c.w + 1] ELSE ChkNextBranch(c)

\* line 419: total = sum(len((p.get('branches', []) or [''])) for p in self.projects)
RECURSIVE Total(_)
Total(ps) == IF ps = <<>> THEN 0 ELSE Len(BranchList(Head(ps))) + Total(Tail(ps))

\* lines 414-420; the 'now' of line 418 is never read.
CheckAllNowWorker_run_enter(j) ==
    /\ chk[j].pc = "run"
    /\ chk' = [chk EXCEPT ![j].pc = "project", ![j].p = 1, ![j].count = 0,
                          ![j].total = Total(projects)]
    /\ hist' = [hist EXCEPT !.cafter[j] = hist.quiet]
    /\ ev' = NoEv
    /\ UNCHANGED <<pc, monitor_lock, monitor_thread, mon, check_worker, tst, doneq,
                   btn, stop_event, head, checkedOut, clock>>
    /\ UNCHANGED projects

\* lines 421-445: the entry the iterator gives, the stop flag, the entry's
\* name and path: a malformed entry and a missing path skip the project, all
\* its branches counted at once.
CheckAllNowWorker_run_project(j) ==
    /\ chk[j].pc = "project"
    /\ LET c == chk[j] IN
       IF c.p > Len(projects) \/ StopRequested(c)
       THEN /\ chk' = [chk EXCEPT ![j].pc = "finally"]
            /\ ev' = NoEv
       ELSE \E exists \in BOOLEAN :
            LET project == projects[c.p] IN
            IF exists /\ ~Malformed(project)
            THEN /\ chk' = [chk EXCEPT ![j] =
                              [c EXCEPT !.pc = "branch", !.project = project, !.b = 1]]
                 /\ ev' = NoEv
            ELSE /\ chk' = [chk EXCEPT ![j] =
                              ChkNextProject([c EXCEPT !.count =
                                  c.count + Len(BranchList(project))])]
                 /\ ev' = SkipEv("check", j, "CheckAllNowWorker")
    /\ UNCHANGED <<pc, monitor_lock, monitor_thread, mon, check_worker, tst, doneq,
                   btn, stop_event, head, checkedOut, clock, hist>>
    /\ UNCHANGED projects

\* lines 446-500: stop flag, checkout, GitMonitor(), rev-parse HEAD, get_changes(),
\* filters.  The head revision is read and compared with nothing.  filters.get(...)
\* at line 475 raises AttributeError on a 'filters' entry that is None; the handler
\* of line 527, around the whole pass, catches it and logs it.
CheckAllNowWorker_run_branch(j) ==
    /\ chk[j].pc = "branch"
    /\ LET c == chk[j]
           branch == BranchList(c.project)[c.b]
           unit == [Ev("unit", "CheckAllNowWorker") EXCEPT
                       !.src = "check", !.id = j, !.branch = branch]
       IN IF StopRequested(c)
          THEN /\ chk' = [chk EXCEPT ![j].pc = "finally"]
               /\ ev' = NoEv
               /\ UNCHANGED checkedOut
          ELSE \E co \in BOOLEAN, init \in BOOLEAN, rp \in BOOLEAN :
               LET tree == TreeAfterCheckout(branch, co)
                   latest_commit == IF rp THEN head[tree] ELSE 0
               IN /\ checkedOut' = tree
                  /\ IF ~init \/ latest_commit = 0
                     THEN /\ chk' = [chk EXCEPT ![j] = ChkNextBranch(c)]
                          /\ ev' = [unit EXCEPT !.log = TRUE]
                     ELSE IF c.project.filters = None
                     THEN /\ chk' = [chk EXCEPT ![j].pc = "finally"]
                          /\ ev' = [Ev("exception", "CheckAllNowWorker") EXCEPT
                                       !.src = "check", !.id = j, !.branch = branch,
                                       !.rev = latest_commit, !.res = "caught",
                                       !.log = TRUE]
                     ELSE \E out \in GitOutputs,
                             dir \in QueryDirs("check", j, c.project.path) :
                          LET f == FilterEval(c.project.filters, out.status, out.commits,
                                              out.tags)
                          IN /\ chk' = [chk EXCEPT ![j] =
                                          IF f.send /\ c.project.webhooks # <<>>
                                          THEN [c EXCEPT !.pc = "webhook", !.w = 1]
                                          ELSE ChkNextBranch(c)]
                             /\ ev' = [unit EXCEPT !.log = ~f.send,
                                                   !.path = c.project.path, !.dir = dir]
    /\ UNCHANGED <<pc, monitor_lock, monitor_thread, mon, check_worker, tst, doneq,
                   btn, stop_event, head, clock, hist>>
    /\ UNCHANGED projects

\* lines 501-524: one webhook of the unit: stop flag, then one send.
CheckAllNowWorker_run_webhook(j) ==
    /\ chk[j].pc = "webhook"
    /\ LET c == chk[j]
           branch == BranchList(c.project)[c.b]
       IN IF StopRequested(c)
          THEN /\ chk' = [chk EXCEPT ![j] = ChkNextBranch(c)]
               /\ hist' = hist
               /\ ev' = NoEv
          ELSE \E res \in SendResults :
               /\ chk' = [chk EXCEPT ![j] = ChkNextWebhook(c)]
               /\ ev' = [SendEv("check", j, branch, c.w, clock,
                                hist.lastOk[branch][c.w], 0, 0, res)
                           EXCEPT !.fmt = c.fmt,
                                  !.template = c.project.webhooks[c.w].template,
                                  !.wh = c.project.webhooks[c.w]]
               /\ hist' = HistSent(hist, branch, c.w, clock, res)
    /\ UNCHANGED <<pc, monitor_lock, monitor_thread, mon, check_worker, tst, doneq,
                   btn, stop_event, head, checkedOut, clock>>
    /\ UNCHANGED projects

\* lines 532-534: finally: done_signal.emit()
CheckAllNowWorker_run_finally(j) ==
    /\ chk[j].pc = "finally"
    /\ chk' = [chk EXCEPT ![j].pc = "exiting"]
    /\ doneq' = IF chk[j].connected
                 THEN [n |-> doneq.n + 1,
                       fresh |-> IF pc["gui"] = "idle" THEN doneq.fresh + 1 ELSE 0]
                 ELSE doneq
    /\ hist' = [hist EXCEPT !.cafter[j] = FALSE]
    /\ ev' = NoEv
    /\ UNCHANGED <<pc, monitor_lock, monitor_thread, mon, check_worker, tst, btn,
                   stop_event, head, checkedOut, clock>>
    /\ UNCHANGED projects

\* run() has returned: the thread ends.
CheckAllNowWorker_run_return(j) ==
    /\ chk[j].pc = "exiting"
    /\ chk' = [chk EXCEPT ![j] = [NoChk EXCEPT !.pc = "finished"]]
    /\ ev' = NoEv
    /\ UNCHANGED <<pc, monitor_lock, monitor_thread, mon, check_worker, tst, doneq,
                   btn, stop_event, head, checkedOut, clock, hist>>
    /\ UNCHANGED projects

(***************************************************************************)
(* MainWindow.test_all_status (lines 1658-1679) and TestAllStatusWorker    *)
(* (lines 1019-1048): one test message to every webhook of every project,  *)
(* one project a step.                                                     *)
(***************************************************************************)
test_all_status ==
    /\ pc["gui"] = "idle" /\ btn.test
    /\ InputEvent
    /\ tst' = [pc |-> IF projects = <<>> THEN "done" ELSE "run", p |-> 1]
    /\ btn' = [btn EXCEPT !.test = FALSE]
    /\ ev' = NoEv
    /\ UNCHANGED <<pc, monitor_lock, monitor_thread, mon, check_worker, chk, stop_event, head, checkedOut, clock, hist>>
    /\ UNCHANGED projects

\* the loop of line 1030 after the entry at position p
TstNextProject(t) ==
    IF t.p < Len(projects) THEN [t EXCEPT !.p = t.p + 1] ELSE [pc |-> "done", p |-> 1]

TestAllStatusWorker_run ==
    /\ tst.pc = "run"
    /\ IF tst.p > Len(projects) \/ projects[tst.p].webhooks = <<>>
       THEN /\ ev' = NoEv
            /\ hist' = hist
       ELSE \E res \in SendResults :
            /\ ev' = SendEv("test", 0, "", 1, clock,
                            Max({hist.lastOk[b][1] : b \in BranchSet}), 0, 0, res)
            /\ hist' = IF res = "ok"
                       THEN [hist EXCEPT !.lastOk = [b \in KeySet |->
                                                      [hist.lastOk[b] EXCEPT ![1] = clock]]]
                       ELSE hist
    /\ tst' = TstNextProject(tst)
    /\ UNCHANGED <<pc, monitor_lock, monitor_thread, mon, check_worker, chk, doneq,
                   btn, stop_event, head, checkedOut, clock>>
    /\ UNCHANGED projects

\* lines 1668-1674: the slot of the test worker's done_signal.
test_all_status_on_done ==
    /\ pc["gui"] = "idle" /\ tst.pc = "done"
    /\ tst' = NoTst
    /\ btn' = [btn EXCEPT !.test = TRUE]
    /\ ev' = NoEv
    /\ UNCHANGED <<pc, monitor_lock, monitor_thread, mon, check_worker, chk, doneq,
                   stop_event, head, checkedOut, clock, hist>>
    /\ UNCHANGED projects

(***************************************************************************)
(* MainWindow.closeEvent (lines 1447-1465).  The calendar thread is told   *)
(* to stop and not joined; self.check_worker is not looked at; the worker  *)
(* in self.worker (a test, import or export worker) has no stop(), so that *)
(* line 1459 raises, the handler of line 1461 prints, and the worker is    *)
(* neither stopped nor waited for.                                         *)
(***************************************************************************)
closeEvent ==
    /\ pc["gui"] = "idle"
    /\ InputEvent
    /\ stop_event' = TRUE
    /\ pc' = [pc EXCEPT !["gui"] = "closeEvent"]
    /\ ev' = NoEv
    /\ UNCHANGED <<monitor_lock, monitor_thread, mon, check_worker, chk, tst, btn, head, checkedOut, clock, hist>>
    /\ UNCHANGED projects

\* lines 1450-1452
closeEvent_enter ==
    /\ pc["gui"] = "closeEvent"
    /\ Acquirable(monitor_lock, "gui")
    /\ ev' = NoEv
    /\ IF MonitorRunning
       THEN /\ mon' = [mon EXCEPT ![monitor_thread].running = FALSE]
            /\ monitor_lock' = "gui"
            /\ pc' = [pc EXCEPT !["gui"] = "close_wait"]
            /\ UNCHANGED monitor_thread
       ELSE /\ monitor_thread' = 0
            /\ pc' = [pc EXCEPT !["gui"] = "closed"]
            /\ UNCHANGED <<mon, monitor_lock>>
    /\ UNCHANGED <<check_worker, chk, tst, doneq, btn, stop_event, head, checkedOut,
                   clock, hist>>
    /\ UNCHANGED projects

\* lines 1453-1465
closeEvent_wait ==
    /\ pc["gui"] = "close_wait"
    /\ WaitReturns(mon[monitor_thread])
    /\ monitor_thread' = 0
    /\ monitor_lock' = "free"
    /\ pc' = [pc EXCEPT !["gui"] = "closed"]
    /\ ev' = NoEv
    /\ UNCHANGED <<mon, check_worker, chk, tst, doneq, btn, stop_event, head,
                   checkedOut, clock, hist>>
    /\ UNCHANGED projects

(***************************************************************************)
(* The steps of the program, by the part of it they belong to.             *)
(***************************************************************************)
StartSteps ==
    \/ start_monitoring_click
    \/ \E t \in Threads : start_monitoring_enter(t)
    \/ \E t \in Threads : start_monitoring_create(t)

StopSteps ==
    \/ stop_monitoring_click
    \/ stop_monitoring_enter
    \/ stop_monitoring_wait

ScheduleSteps ==
    \/ schedule_checker_exit
    \/ schedule_checker_match
    \/ schedule_checker_locked

CloseSteps ==
    \/ closeEvent
    \/ closeEvent_enter
    \/ closeEvent_wait

MonitorWorkerSteps ==
    \/ \E i \in 1..MaxMon : MonitorWorker_run_enter(i)
    \/ \E i \in 1..MaxMon : MonitorWorker_run_while(i)
    \/ \E i \in 1..MaxMon : MonitorWorker_run_project(i)
    \/ \E i \in 1..MaxMon : MonitorWorker_run_branch(i)
    \/ \E i \in 1..MaxMon : MonitorWorker_run_changes(i)
    \/ \E i \in 1..MaxMon : MonitorWorker_run_webhook(i)
    \/ \E i \in 1..MaxMon : MonitorWorker_run_cycle(i)
    \/ \E i \in 1..MaxMon : MonitorWorker_run_sleep(i)

CheckSteps ==
    \/ check_now_click
    \/ check_all_now
    \/ cancel_check_all_now
    \/ on_done
    \/ on_done_wait

CheckAllNowWorkerSteps ==
    \/ \E j \in 1..MaxChk : CheckAllNowWorker_run_enter(j)
    \/ \E j \in 1..MaxChk : CheckAllNowWorker_run_project(j)
    \/ \E j \in 1..MaxChk : CheckAllNowWorker_run_branch(j)
    \/ \E j \in 1..MaxChk : CheckAllNowWorker_run_webhook(j)
    \/ \E j \in 1..MaxChk : CheckAllNowWorker_run_finally(j)
    \/ \E j \in 1..MaxChk : CheckAllNowWorker_run_return(j)

TestSteps ==
    \/ test_all_status
    \/ TestAllStatusWorker_run
    \/ test_all_status_on_done

(***************************************************************************)
(* The whole program in its environment.                                   *)
(***************************************************************************)
Next ==
    \/ StartSteps
    \/ StopSteps
    \/ ScheduleSteps
    \/ CloseSteps
    \/ MonitorWorkerSteps
    \/ CheckSteps
    \/ CheckAllNowWorkerSteps
    \/ TestSteps
    \/ Commit
    \/ Tick

Spec == Init /\ [][Next]_vars

(***************************************************************************)
(* The triggers of monitoring: the buttons, the calendar thread, the close *)
(* of the window, and the MonitorWorker they start and stop.  The          *)
(* repository is quiet.                                                     *)
(***************************************************************************)
NextMonitor ==
    \/ StartSteps
    \/ StopSteps
    \/ ScheduleSteps
    \/ CloseSteps
    \/ MonitorWorkerSteps

SpecMonitor == InitCfg({<<"main">>}) /\ [][NextMonitor]_vars

(***************************************************************************)
(* Monitoring and 'Check All Now' side by side, over a quiet repository.   *)
(***************************************************************************)
NextCheck ==
    \/ StartSteps
    \/ StopSteps
    \/ MonitorWorkerSteps
    \/ CheckSteps
    \/ CheckAllNowWorkerSteps

SpecCheck == InitCfg({<<"main">>}) /\ [][NextCheck]_vars

(***************************************************************************)
(* The scheduled scan over a repository that receives commits.             *)
(***************************************************************************)
NextScan ==
    \/ StartSteps
    \/ StopSteps
    \/ MonitorWorkerSteps
    \/ Commit

SpecScan == InitCfg({<<"main", "dev">>}) /\ [][NextScan]_vars

(***************************************************************************)
(* The scheduled scan and the connectivity test, while commits arrive and  *)
(* time passes.                                                            *)
(***************************************************************************)
NextDispatch ==
    \/ StartSteps
    \/ MonitorWorkerSteps
    \/ TestSteps
    \/ Commit
    \/ Tick

SpecDispatch == InitCfg({<<"main">>}) /\ [][NextDispatch]_vars


\* the scheduled scan while commits arrive and time passes, with the history
\* of throttled dispatches kept
SpecNotify ==
    InitWith({<<"main">>}, {Filters}, [NoHist EXCEPT !.track = "throttled"])
        /\ [][NextDispatch]_vars

\* monitoring of one branch, stopped and started again, with the history of
\* failed dispatches kept
NextRetry ==
    \/ StartSteps
    \/ StopSteps
    \/ MonitorWorkerSteps
    \/ Commit

SpecRetry ==
    InitWith({<<"main">>}, {Filters}, [NoHist EXCEPT !.track = "failed"])
        /\ [][NextRetry]_vars

\* the manual pass alone, over two branches, with either 'filters' entry; the
\* window may be closed at any moment
NextManual ==
    \/ CheckSteps
    \/ CheckAllNowWorkerSteps
    \/ closeEvent
    \/ closeEvent_enter

\* 'auto_start_monitoring' is off
InitManual ==
    /\ InitWith({<<"main", "dev">>}, {Filters, None}, NoHist)
    /\ pc["gui"] = "idle"

SpecManual == InitManual /\ [][NextManual]_vars

\* the scheduled and the manual pass over two branches, with either 'filters'
\* entry
NextFault ==
    \/ StartSteps
    \/ MonitorWorkerSteps
    \/ CheckSteps
    \/ CheckAllNowWorkerSteps

SpecFault ==
    InitWith({<<"main", "dev">>}, {Filters, None}, NoHist) /\ [][NextFault]_vars

\* Entries of self.projects: P1 and P2 as the project dialog writes them, an
\* entry saved with the name left empty (the dialog checks the path only, lines
\* 819-827), an entry of a projects file without 'path'.
P1 == Project("p1", RepoPath, <<"main">>, Filters, Webhooks)
P2 == Project("p2", RepoPath, <<"dev">>, Filters, Webhooks)
Nameless == Project("", RepoPath, <<"main">>, Filters, Webhooks)
Pathless == Project("p2", "", <<"dev">>, Filters, Webhooks)

\* both trigger paths over a configuration that holds a malformed entry
NextValidate ==
    \/ StartSteps
    \/ MonitorWorkerSteps
    \/ check_now_click
    \/ check_all_now

InitValidate ==
    InitProjects({<<Nameless>>, <<Nameless, P2>>, <<P1, Pathless>>}, NoHist)

SpecValidate == InitValidate /\ [][NextValidate]_vars

\* The scheduled and the manual pass over p1 and a project of a second
\* repository.  The model keeps one table of heads, by branch name, and one
\* working tree: the heads and the tree the second project's unit reads are
\* those of the first repository.
SpecWorkDir ==
    InitProjects({<<P1, Project("p2", "repo2", <<"dev">>, Filters, Webhooks)>>}, NoHist)
        /\ [][NextFault]_vars

\* The scheduled and the manual pass over a project whose webhook has one of
\* two formats, with or without a template.
SpecSelector ==
    InitProjects({<<Project("p1", RepoPath, <<"main">>, Filters,
                            <<[Webhooks[1] EXCEPT !.format = f, !.template = t]>>)>> :
                     f \in {"Raw commit messages", "Changelog style"},
                     t \in {"", "{commit_message}"}}, NoHist)
        /\ [][NextFault]_vars

\* The scheduled and the manual pass over p1 and an entry saved before any
\* webhook was added to it: the project dialog accepts an empty webhook list
\* (lines 819-827).
SpecLog ==
    InitProjects({<<Project("p2", RepoPath, <<"dev">>, Filters, <<>>), P1>>}, NoHist)
        /\ [][NextFault]_vars

(***************************************************************************)
(* The project list is edited in the foreground while the workers hold the *)
(* same list object (lines 1383, 1590, 1664).  A handler is one step of    *)
(* the GUI thread: the modal dialog, the change of self.projects, save_all *)
(* and refresh_project_list, the log line.  'for project in self.projects' *)
(* of a worker is an index into the list as it is at each step.            *)
(***************************************************************************)
MaxProjects == 2

\* the change of self.projects, save_all, refresh_project_list and the log line
ConfigStep(ps) ==
    /\ projects' = ps
    /\ ev' = [Ev("config", "gui") EXCEPT !.log = TRUE]
    /\ UNCHANGED <<pc, monitor_lock, monitor_thread, mon, check_worker, chk, tst, btn,
                   stop_event, head, checkedOut, clock, hist>>

\* lines 1318-1327: the accepted entry is appended in place
open_add_project_dialog ==
    /\ pc["gui"] = "idle"
    /\ InputEvent
    /\ Len(projects) < MaxProjects
    /\ \E data \in {P1, P2} : ConfigStep(Append(projects, data))

\* lines 1329-1350: the selected row is replaced by the accepted entry
open_edit_project_dialog ==
    /\ pc["gui"] = "idle"
    /\ InputEvent
    /\ \E row \in 1..Len(projects), data \in {P1, P2} :
          ConfigStep([projects EXCEPT ![row] = data])

\* lines 1352-1365: the selected row is popped
remove_selected_project ==
    /\ pc["gui"] = "idle"
    /\ InputEvent
    /\ \E row \in 1..Len(projects) :
          ConfigStep(SubSeq(projects, 1, row - 1) \o SubSeq(projects, row + 1, Len(projects)))

\* the scheduled pass while the project list is edited
NextConfig ==
    \/ StartSteps
    \/ MonitorWorkerSteps
    \/ open_add_project_dialog
    \/ open_edit_project_dialog
    \/ remove_selected_project

SpecConfig ==
    InitProjects({<<P1>>, <<P1, P2>>}, [NoHist EXCEPT !.track = "projects"])
        /\ [][NextConfig]_vars

(***************************************************************************)
(* The configuration file (src/git_reporter/config_utils.py).  A JSON      *)
(* value carries its Python type: [t |-> "dict", d |-> a function of its   *)
(* keys], [t |-> "list", items |-> a sequence], [t |-> "int", n |-> ...],   *)
(* [t |-> "bool", b |-> ...], [t |-> "null"].  A file is absent            *)
(* ([kind |-> "none"]), holds a whole JSON document ([kind |-> "json",     *)
(* val |-> the value]) or the beginning of one ([kind |-> "partial",       *)
(* val |-> the value that was being written]), which json.load rejects.    *)
(* An operator that can raise yields [raised |-> TRUE] or                  *)
(* [raised |-> FALSE, data |-> the value returned].                        *)
(***************************************************************************)
CURRENT_CONFIG_VERSION == 1

\* the defaults of the desktop application
DEFAULT_CONFIG ==
    [t |-> "dict", d |->
        [version |-> [t |-> "int", n |-> CURRENT_CONFIG_VERSION],
         projects |-> [t |-> "list", items |-> <<>>],
         settings |-> [t |-> "dict", d |->
            [start_with_windows |-> [t |-> "bool", b |-> FALSE],
             schedules |-> [t |-> "list", items |-> <<>>],
             master_frequency |-> [t |-> "int", n |-> 1],
             auto_start_monitoring |-> [t |-> "bool", b |-> TRUE],
             always_on_top |-> [t |-> "bool", b |-> FALSE],
             dark_mode |-> [t |-> "bool", b |-> FALSE],
             start_with_log_open |-> [t |-> "bool", b |-> FALSE],
             show_inline_progress_bars |-> [t |-> "bool", b |-> TRUE]]]]]

\* validate_config: the defaults, overlaid with the entries of data whose key
\* the defaults have; an entry whose default is a dict is validated in turn
\* (data.get(k, {})).  The list branch stores data[k], which update() has
\* stored already.
RECURSIVE validate_config(_, _)
validate_config(data, default) ==
    IF data.t # "dict" THEN default
    ELSE [t |-> "dict", d |->
            [k \in DOMAIN default.d |->
                IF default.d[k].t = "dict"
                THEN validate_config(IF k \in DOMAIN data.d THEN data.d[k]
                                     ELSE [t |-> "dict", d |-> [x \in {} |-> x]],
                                     default.d[k])
                ELSE IF k \in DOMAIN data.d THEN data.d[k] ELSE default.d[k]]]

\* migrate_config: data.get('version', 1) raises AttributeError on a value
\* that is no dict; then data['version'] = current_version
migrate_config(data) ==
    IF data.t # "dict" THEN [raised |-> TRUE]
    ELSE [raised |-> FALSE,
          data |-> [t |-> "dict", d |->
                      [k \in DOMAIN data.d \cup {"version"} |->
                          IF k = "version" THEN [t |-> "int", n |-> CURRENT_CONFIG_VERSION]
                          ELSE data.d[k]]]]

\* one try block of load_config_with_recovery (lines 49-54, 60-65): open,
\* json.load, migrate_config, validate_config
load_file(file, default) ==
    IF file.kind # "json" THEN [raised |-> TRUE]
    ELSE LET migrated == migrate_config(file.val) IN
         IF migrated.raised THEN [raised |-> TRUE]
         ELSE [raised |-> FALSE, data |-> validate_config(migrated.data, default)]

\* load_config_with_recovery on the files path and path + '.bak'
load_config_with_recovery(main, bak, default) ==
    LET first == load_file(main, default)
        second == load_file(bak, default)
    IN  IF ~first.raised THEN first
        ELSE IF bak.kind # "none" /\ ~second.raised THEN second
        ELSE [raised |-> FALSE, data |-> default]

\* the files load_config_with_recovery is tried with: no file, and 9 JSON
\* documents, each whole and cut short
ConfigFiles ==
    LET int(n) == [t |-> "int", n |-> n]
        bool(b) == [t |-> "bool", b |-> b]
        list(s) == [t |-> "list", items |-> s]
        dict(f) == [t |-> "dict", d |-> f]
        documents ==
            { [t |-> "null"], list(<<>>), int(5),
              dict([x \in {} |-> x]),
              dict([version |-> int(0)]),
              dict([version |-> int(1), projects |-> list(<<"p1">>)]),
              dict([version |-> int(1), projects |-> list(<<"p1", "p2">>),
                    settings |-> dict([dark_mode |-> bool(TRUE)])]),
              dict([projects |-> int(7), settings |-> int(5), junk |-> int(1)]),
              dict([version |-> int(2),
                    settings |-> dict([always_on_top |-> bool(TRUE), junk |-> bool(TRUE)])]) }
    IN  {[kind |-> "none"]}
            \cup {[kind |-> k, val |-> v] : k \in {"json", "partial"}, v \in documents}

\* load_all (lines 100-105) on a configuration directory
load_config_with_recovery_apply ==
    /\ ev = NoEv
    /\ \E main \in ConfigFiles, bak \in ConfigFiles :
         LET r == load_config_with_recovery(main, bak, DEFAULT_CONFIG) IN
         ev' = [type |-> "load_config_with_recovery", main |-> main, bak |-> bak,
                raised |-> r.raised, data |-> r.data]
    /\ UNCHANGED <<pc, monitor_lock, monitor_thread, mon, check_worker, chk, tst, doneq,
                   btn, stop_event, head, checkedOut, clock, hist>>
    /\ UNCHANGED projects

\* load_config_with_recovery alone
SpecLoad == InitCfg({<<"main">>}) /\ [][load_config_with_recovery_apply]_vars

(***************************************************************************)
(* Saving the configuration.  save_all and load_all are module functions;  *)
(* MaxCallers threads call them.  While ev.type = "config", ev holds the   *)
(* configuration directory and the callers after the last step:            *)
(*   main, bak    the files CONFIG_FILE and CONFIG_FILE + '.bak'           *)
(*   tmp[t]       the NamedTemporaryFile of caller t                       *)
(*   config_lock  its holder, 0 = free                                     *)
(*   at[t]        where caller t is                                        *)
(*   data[t]      the value caller t is saving                             *)
(*   before[t]    the main file as it was when t entered save_all          *)
(*   last         the last call that ended or was cut short                *)
(* copy2 and json.dump write a file piece by piece: the file is "partial"  *)
(* until the last piece is written.  os.replace is one step.               *)
(***************************************************************************)
MaxCallers == 2

ConfigDir(main, bak) ==
    [type |-> "config", main |-> main, bak |-> bak,
     tmp |-> [t \in 1..MaxCallers |-> [kind |-> "none"]],
     config_lock |-> 0,
     at |-> [t \in 1..MaxCallers |-> "idle"],
     data |-> [t \in 1..MaxCallers |-> [t |-> "null"]],
     before |-> [t \in 1..MaxCallers |-> [kind |-> "none"]],
     last |-> [op |-> "", at |-> "", before |-> [kind |-> "none"], data |-> [t |-> "null"]]]

\* the application starts on a configuration directory in any condition
CONFIG_FILE ==
    /\ ev = NoEv
    /\ \E main, bak \in {f \in ConfigFiles :
                            \/ f.kind = "none"
                            \/ f.val \in {[t |-> "list", items |-> <<>>],
                                          [t |-> "dict", d |-> [version |-> [t |-> "int", n |-> 0]]]}} :
         ev' = ConfigDir(main, bak)
    /\ UNCHANGED <<pc, monitor_lock, monitor_thread, mon, check_worker, chk, tst, doneq,
                   btn, stop_event, head, checkedOut, clock, hist>>
    /\ UNCHANGED projects

\* backup_config: nothing when the file does not exist, else shutil.copy2
backup_config(t) ==
    /\ \/ /\ ev.at[t] = "backup_config"
          /\ ev' = IF ev.main.kind = "none"
                   THEN [ev EXCEPT !.at[t] = "atomic_save_json"]
                   ELSE [ev EXCEPT !.at[t] = "copy2",
                                   !.bak = [kind |-> "partial", val |-> ev.main.val]]
       \/ /\ ev.at[t] = "copy2"
          /\ ev' = [ev EXCEPT !.at[t] = "atomic_save_json", !.bak = ev.main]
    /\ UNCHANGED <<pc, monitor_lock, monitor_thread, mon, check_worker, chk, tst, doneq,
                   btn, stop_event, head, checkedOut, clock, hist>>
    /\ UNCHANGED projects

\* json.dump straight into the file of the configuration
save_json_in_place(t) ==
    /\ \/ /\ ev.at[t] = "atomic_save_json"
          /\ ev' = [ev EXCEPT !.at[t] = "json_dump",
                              !.main = [kind |-> "partial", val |-> ev.data[t]]]
       \/ /\ ev.at[t] = "json_dump"
          /\ ev' = [ev EXCEPT !.at[t] = "os_replace",
                              !.main = [kind |-> "json", val |-> ev.data[t]]]
       \/ /\ ev.at[t] = "os_replace"
          /\ ev' = [ev EXCEPT !.at[t] = "saved"]
    /\ UNCHANGED <<pc, monitor_lock, monitor_thread, mon, check_worker, chk, tst, doneq,
                   btn, stop_event, head, checkedOut, clock, hist>>
    /\ UNCHANGED projects

\* atomic_save_json: a temporary file in the same directory is created,
\* written (json.dump) and closed, then os.replace puts it in place
atomic_save_json(t) ==
    /\ \/ /\ ev.at[t] = "atomic_save_json"
          /\ ev' = [ev EXCEPT !.at[t] = "json_dump",
                              !.tmp[t] = [kind |-> "partial", val |-> ev.data[t]]]
       \/ /\ ev.at[t] = "json_dump"
          /\ ev' = [ev EXCEPT !.at[t] = "os_replace",
                              !.tmp[t] = [kind |-> "json", val |-> ev.data[t]]]
       \/ /\ ev.at[t] = "os_replace"
          /\ ev' = [ev EXCEPT !.at[t] = "saved", !.main = ev.tmp[t],
                              !.tmp[t] = [kind |-> "none"]]
    /\ UNCHANGED <<pc, monitor_lock, monitor_thread, mon, check_worker, chk, tst, doneq,
                   btn, stop_event, head, checkedOut, clock, hist>>
    /\ UNCHANGED projects

\* save_all: 'with config_lock' is entered with the data built from the
\* arguments (lines 110-114), and left after atomic_save_json
save_all(t) ==
    /\ ev.type = "config"
    /\ \/ /\ ev.at[t] = "idle"
          /\ ev.config_lock = 0
          /\ \E ps \in {<<"p1">>, <<"p1", "p2">>} :
               ev' = [ev EXCEPT !.config_lock = t,
                                !.at[t] = "backup_config",
                                !.before[t] = ev.main,
                                !.data[t] =
                                    [t |-> "dict", d |->
                                        [version |-> [t |-> "int", n |-> CURRENT_CONFIG_VERSION],
                                         projects |-> [t |-> "list", items |-> ps],
                                         settings |-> DEFAULT_CONFIG.d.settings]],
                                !.last = ConfigDir(ev.main, ev.bak).last]
       \/ /\ ev.at[t] = "saved"
          /\ ev' = [ev EXCEPT !.config_lock = 0,
                              !.at[t] = "idle",
                              !.before[t] = [kind |-> "none"],
                              !.data[t] = [t |-> "null"],
                              !.last = [op |-> "save_all", at |-> "saved",
                                        before |-> ev.before[t], data |-> ev.data[t]]]
    /\ UNCHANGED <<pc, monitor_lock, monitor_thread, mon, check_worker, chk, tst, doneq,
                   btn, stop_event, head, checkedOut, clock, hist>>
    /\ UNCHANGED projects

\* load_all: 'with config_lock' around load_config_with_recovery
load_all(t) ==
    /\ ev.type = "config"
    /\ \/ /\ ev.at[t] = "idle"
          /\ ev.config_lock = 0
          /\ ev' = [ev EXCEPT !.config_lock = t, !.at[t] = "load_config_with_recovery"]
       \/ /\ ev.at[t] = "load_config_with_recovery"
          /\ ev' = [ev EXCEPT !.config_lock = 0,
                              !.at[t] = "idle",
                              !.last = [op |-> "load_all", at |-> "load_config_with_recovery",
                                        before |-> ev.main,
                                        data |-> load_config_with_recovery(
                                                     ev.main, ev.bak, DEFAULT_CONFIG).data]]
    /\ UNCHANGED <<pc, monitor_lock, monitor_thread, mon, check_worker, chk, tst, doneq,
                   btn, stop_event, head, checkedOut, clock, hist>>
    /\ UNCHANGED projects

\* the process is killed while caller t is inside save_all, and the
\* application is started again: the files stay as they are (a temporary
\* file that is left over is never read), the lock and the threads are new
crash(t) ==
    /\ ev.type = "config"
    /\ ev.at[t] \in {"backup_config", "copy2", "atomic_save_json", "json_dump",
                     "os_replace", "saved"}
    /\ ev' = [ConfigDir(ev.main, ev.bak) EXCEPT
                 !.last = [op |-> "crash", at |-> ev.at[t],
                           before |-> ev.before[t], data |-> ev.data[t]]]
    /\ UNCHANGED <<pc, monitor_lock, monitor_thread, mon, check_worker, chk, tst, doneq,
                   btn, stop_event, head, checkedOut, clock, hist>>
    /\ UNCHANGED projects

NextSave ==
    \/ CONFIG_FILE
    \/ \E t \in 1..MaxCallers : save_all(t)
    \/ \E t \in 1..MaxCallers : ev.type = "config" /\ backup_config(t)
    \/ \E t \in 1..MaxCallers : ev.type = "config" /\ atomic_save_json(t)
    \/ \E t \in 1..MaxCallers : load_all(t)
    \/ \E t \in 1..MaxCallers : crash(t)

SpecSave == InitCfg({<<"main">>}) /\ [][NextSave]_vars

\* format_message alone
SpecFormat == InitCfg({<<"main">>}) /\ [][format_message_apply]_vars

\* the filter block alone
NextFilter == FilterEval_apply

SpecFilter == InitCfg({<<"main">>}) /\ [][NextFilter]_vars

(***************************************************************************)
(* The threads make progress whenever they can; nothing obliges the user   *)
(* to click or the calendar to match.                                      *)
(***************************************************************************)
GuiThreadSteps ==
    \/ start_monitoring_enter("gui")
    \/ start_monitoring_create("gui")
    \/ stop_monitoring_enter
    \/ stop_monitoring_wait
    \/ closeEvent_enter
    \/ closeEvent_wait

SchedThreadSteps ==
    \/ schedule_checker_exit
    \/ schedule_checker_locked
    \/ start_monitoring_enter("sched")
    \/ start_monitoring_create("sched")

SpecMonitorFair ==
    /\ SpecMonitor
    /\ WF_vars(GuiThreadSteps)
    /\ WF_vars(SchedThreadSteps)
    /\ WF_vars(MonitorWorkerSteps)

\* the thread of CheckAllNowWorker j
CheckAllNowWorker_run(j) ==
    \/ CheckAllNowWorker_run_enter(j)
    \/ CheckAllNowWorker_run_project(j)
    \/ CheckAllNowWorker_run_branch(j)
    \/ CheckAllNowWorker_run_webhook(j)
    \/ CheckAllNowWorker_run_finally(j)
    \/ CheckAllNowWorker_run_return(j)

SpecManualFair ==
    /\ SpecManual
    /\ \A j \in 1..MaxChk : WF_vars(CheckAllNowWorker_run(j))

(***************************************************************************)
(*                              The claims                                 *)
(***************************************************************************)
MonitorsInPass == {i \in 1..MaxMon : MonPassActive(mon[i])}
ChecksInPass == {j \in 1..MaxChk : ChkPassActive(chk[j])}
RunningMonitors == {i \in 1..MaxMon : isRunning(mon[i])}
\* the CheckAllNowWorkers started whose pass has not ended (done_signal not emitted)
ChecksRunning ==
    {j \in 1..MaxChk : chk[j].pc \in {"run", "project", "branch", "webhook", "finally"}}

\* C1: at most one scan pass is active at any time: never a MonitorWorker
\* pass and a CheckAllNowWorker pass, nor two passes of one kind, iterating
\* over the projects at the same time.
C1_OnePassAtATime ==
    Cardinality(MonitorsInPass) + Cardinality(ChecksInPass) <= 1

\* C2: no dispatch call to a webhook, on any dispatch path, is made at a
\* time now with now - lastSuccessfulSend < frequency * 60 for its key.
C2_OncePerWindow ==
    (ev.type = "send" /\ ev.last # 0)
        => ev.now - ev.last >= Webhooks[ev.w].frequency * 60

\* The last-seen map of the process: the map of the MonitorWorker in use.
lastSeenRevision ==
    IF hist.cur = 0 THEN NoMon.last_commit_hashes
    ELSE mon[hist.cur].last_commit_hashes

\* C3: the stored revision of a key changes only in a step that observes a
\* different head revision for that key, and an entry is never reset or
\* removed, stop_monitoring followed by start_monitoring included.
C3_LastSeenKept ==
    [][\A b \in BranchSet :
          /\ lastSeenRevision[b] # 0 => lastSeenRevision'[b] # 0
          /\ lastSeenRevision'[b] # lastSeenRevision[b]
                => /\ ev'.type = "observe" /\ ev'.branch = b
                   /\ ev'.rev = lastSeenRevision'[b]
                   /\ ev'.rev # lastSeenRevision[b]]_vars

\* C4: once a pass has completed and while no head changes, a later pass
\* makes no dispatch call, whichever trigger started either pass.
C4_SecondPassSilent ==
    ev.type = "send"
        => /\ ev.src = "monitor" => ~hist.mafter[ev.id]
           /\ ev.src = "check" => ~hist.cafter[ev.id]

\* C5: when the calendar thread has seen a match while no MonitorWorker is
\* running, a MonitorWorker eventually runs; when one is running, the match
\* changes neither the worker nor the reference to it.
C5_CalendarStarts ==
    /\ (pc["sched"] = "start_monitoring") ~> MonitorRunning
    /\ [][(pc["sched"] = "sched_lock" /\ pc'["sched"] = "poll")
             => UNCHANGED <<monitor_thread, mon>>]_vars

\* C6: no deadlock on monitor_lock: no thread waits for the lock while the
\* thread that holds it can never release it, which is the case when the
\* waiting thread is the holder.
C6_LockNeverStuck ==
    \A t \in Threads :
        pc[t] \in {"start_monitoring", "stop_monitoring", "closeEvent", "sched_lock"}
            => monitor_lock # t

\* C7: start is an atomic check-and-set: a thread that has seen 'not
\* running' holds the lock while no worker runs, and at most one
\* MonitorWorker is running at any time.
C7_OneMonitorWorker ==
    /\ Cardinality(RunningMonitors) <= 1
    /\ \A t \in Threads :
          pc[t] = "start_new" => monitor_lock = t /\ RunningMonitors = {}

\* both triggers attempt a start at once: the GUI thread is creating the
\* worker while the calendar thread asks for the lock.
W7_BothAttempt == pc["gui"] = "start_new" /\ pc["sched"] = "sched_lock"

\* C8: check_all_now while a CheckAllNowWorker runs, and start_monitoring
\* while a MonitorWorker runs, give a warning and change nothing: no worker
\* is created, the running pass is untouched, no delivery is queued.
C8_RejectedWhileRunning ==
    [][/\ (/\ pc["gui"] \in {"check_all_now_1", "check_all_now_2"}
           /\ pc'["gui"] # pc["gui"]
           /\ ChecksRunning # {})
          => /\ ev'.type = "warning" /\ ev'.by = "check_all_now"
             /\ UNCHANGED <<check_worker, chk, doneq, btn, monitor_thread, mon>>
       /\ \A t \in Threads :
            (pc[t] = "start_monitoring" /\ pc'[t] # pc[t] /\ MonitorRunning)
              => /\ ev'.type = "warning" /\ ev'.by = "start_monitoring"
                 /\ UNCHANGED <<monitor_thread, mon, check_worker, chk, doneq>>]_vars

\* the second call of the slot found the worker of the first one running.
W8_Rejected ==
    /\ ev.type = "warning" /\ ev.by = "check_all_now"
    /\ check_worker # 0 /\ ChkPassActive(chk[check_worker])

\* C9: an observed head revision is treated as new (the unit goes on to
\* get_changes) iff the key has no stored revision or a different one, and
\* the map then holds the observed revision, so that each of three distinct
\* revisions seen in turn is flagged once.
C9_NewIffDifferent ==
    ev.type = "observe"
        => /\ (mon[ev.id].pc = "changes") <=> (ev.stored = 0 \/ ev.stored # ev.rev)
           /\ mon[ev.id].last_commit_hashes[ev.branch] = ev.rev

\* the third of three distinct revisions is seen after the second.
W9_ThirdRevision ==
    /\ ev.type = "observe" /\ ev.stored = 2 /\ ev.rev = 3
    /\ mon[ev.id].pc = "changes"

\* C10: the new head revision is in the last-seen map before the filters
\* are evaluated and before any dispatch call of the unit: at every
\* dispatch call the stored revision is the revision notified.
C10_RecordedBeforeDispatch ==
    /\ \A i \in 1..MaxMon :
          mon[i].pc \in {"changes", "webhook"}
            => /\ mon[i].latest # 0
               /\ mon[i].last_commit_hashes[BranchList(mon[i].project)[mon[i].b]]
                      = mon[i].latest
    /\ (ev.type = "send" /\ ev.src = "monitor") => (ev.rev # 0 /\ ev.stored = ev.rev)

\* a scheduled pass has made a dispatch call for a unit.
W10_Dispatched == ev.type = "send" /\ ev.src = "monitor" /\ ev.branch = "dev"

(***************************************************************************)
(* C14: the filter block decides by OR: a unit qualifies if and only if at *)
(* least one of the four predicates fires: commits enabled and the log     *)
(* non-empty; merges enabled and some log line containing 'merge' whatever *)
(* its case; tags enabled and a tag containing the revision; filetypes     *)
(* non-empty and some status line ending with a configured extension.      *)
(* With commits, merges and tags off and filetypes '.cpp', a status with   *)
(* only a .txt line does not qualify.                                      *)
(***************************************************************************)
CommitsFires(e) == e.filters.commits /\ e.commits # <<>>

MergesFires(e) ==
    e.filters.merges /\ \E k \in 1..Len(e.commits) : Contains(Lower(e.commits[k]), MergeWord)

TagsFires(e) == e.filters.tags /\ e.tags # <<>>

FiletypesFires(e) ==
    /\ e.filters.filetypes # <<>>
    /\ \E k \in 1..Len(e.status), t \in {<<".", "c", "p", "p">>, <<".", "h">>} :
         /\ Contains(e.filters.filetypes, t)
         /\ EndsWith(e.status[k], t)

OnlyCpp ==
    [commits |-> FALSE, merges |-> FALSE, tags |-> FALSE,
     filetypes |-> <<".", "c", "p", "p">>]

C14_FilterOr ==
    ev.type = "FilterEval" =>
        /\ ev.send <=> (CommitsFires(ev) \/ MergesFires(ev) \/ TagsFires(ev)
                            \/ FiletypesFires(ev))
        /\ (ev.filters = OnlyCpp /\ ev.status = <<TxtLine>>) => ~ev.send

\* the same Filters entry, a .cpp line added to the .txt line: the unit qualifies
W14_CppLineAdded ==
    /\ ev.type = "FilterEval"
    /\ ev.filters = OnlyCpp
    /\ ev.status = <<TxtLine, CppLine>>
    /\ ev.send

(***************************************************************************)
(* C11: a revision whose dispatch failed is not retried: when the dispatch *)
(* of a scheduled pass for a branch has failed, no later pass makes a      *)
(* dispatch call for that branch while its head stays the same.            *)
(***************************************************************************)
C11_FailedNotRetried ==
    (ev.type = "send" /\ ev.src = "monitor") => ~ev.retry

(***************************************************************************)
(* C12: the throttle clock moves only on success: a send of a scheduled    *)
(* pass that returned True sets lastSentTime of its key to the pass's now  *)
(* and nothing else; a send that returned False or raised leaves both maps *)
(* of the worker as they were.                                             *)
(***************************************************************************)
C12_ClockOnlyOnSuccess ==
    [][\A i \in 1..MaxMon :
         (ev'.type = "send" /\ ev'.src = "monitor" /\ ev'.id = i) =>
            /\ mon'[i].last_commit_hashes = mon[i].last_commit_hashes
            /\ ev'.now = mon[i].now
            /\ mon'[i].last_sent_times =
                 IF ev'.res = "ok"
                 THEN [mon[i].last_sent_times EXCEPT ![ev'.branch][ev'.w] = mon[i].now]
                 ELSE mon[i].last_sent_times]_vars

\* a send fails or raises for a key that holds the time of an earlier success
W12_FailedAfterSuccess ==
    /\ ev.type = "send" /\ ev.src = "monitor"
    /\ ev.res \in {"fail", "raise"}
    /\ ev.gate # 0
    /\ mon[ev.id].last_sent_times[ev.branch][ev.w] = ev.gate

(***************************************************************************)
(* C13: the throttle gate skips a webhook exactly when now - t0 < F * 60,  *)
(* t0 the last successful send to the key and F the webhook's frequency in *)
(* minutes: with F = 60 an attempt 30 minutes after t0 is skipped and one  *)
(* at or after 60 minutes proceeds.                                        *)
(***************************************************************************)
C13_ThrottleGate ==
    (ev.src = "monitor" /\ ev.type \in {"send", "throttled"}) =>
        ((ev.type = "throttled") <=> (ev.now - ev.gate < Webhooks[ev.w].frequency * 60))

\* an attempt proceeds once the window after an earlier success has passed
W13_ProceedsAfterWindow ==
    /\ ev.type = "send" /\ ev.src = "monitor"
    /\ ev.gate # 0
    /\ ev.now - ev.gate >= Webhooks[ev.w].frequency * 60

(***************************************************************************)
(* C15: when no filter predicate qualifies for a changed branch, the       *)
(* scheduled pass leaves the unit without entering its webhook loop (no    *)
(* dispatch call for any webhook of the unit), and the last-seen revision  *)
(* of the branch is the revision just observed all the same.               *)
(***************************************************************************)
C15_NoMatchNoDispatch ==
    (ev.type = "filter" /\ ev.src = "monitor" /\ ev.res = "skip") =>
        /\ mon[ev.id].pc \in {"branch", "cycle"}
        /\ ev.rev # 0
        /\ mon[ev.id].last_commit_hashes[ev.branch] = ev.rev

\* a changed branch whose changes match no filter, after a first revision was
\* recorded for it
W15_SkippedSecondRevision ==
    /\ ev.type = "filter" /\ ev.src = "monitor" /\ ev.res = "skip"
    /\ ev.rev > 1

(***************************************************************************)
(* C17: once stop() has been requested on a MonitorWorker that is inside a *)
(* pass, the pass processes no further branch (no rev-parse of a further   *)
(* unit) and makes no further dispatch call.                               *)
(***************************************************************************)
C17_StopEndsScheduledPass ==
    [][\A i \in 1..MaxMon :
         (~mon[i].running /\ MonPassActive(mon[i])) =>
             ~(ev'.src = "monitor" /\ ev'.id = i /\ ev'.type \in {"observe", "send"})]_vars

(***************************************************************************)
(* C16: once the cancellation flag of a CheckAllNowWorker is set, the      *)
(* worker starts no further unit and makes no further dispatch call; a     *)
(* flag met before a project or a branch ends the pass with the count of   *)
(* processed units as it was (k units for a cancel after unit k); and the  *)
(* pass then comes to its end, where done is emitted.                      *)
(***************************************************************************)
C16_CancelEndsManualPass ==
    /\ [][\A j \in 1..MaxChk :
            chk[j].should_stop =>
               /\ ~(ev'.src = "check" /\ ev'.id = j /\ ev'.type \in {"unit", "send"})
               /\ (chk[j].pc \in {"project", "branch"} /\ chk'[j] # chk[j]) =>
                      chk'[j] = [chk[j] EXCEPT !.pc = "finally"]]_vars
    /\ \A j \in 1..MaxChk :
          (chk[j].should_stop /\ isRunning(chk[j])) ~> (chk[j].pc \in {"exiting", "finished"})

\* cancelled after unit 1 of 2: the pass is at its end with one unit processed
W16_CancelledAfterFirstUnit ==
    \E j \in 1..MaxChk :
        /\ chk[j].should_stop
        /\ chk[j].pc = "finally"
        /\ chk[j].count = 1
        /\ chk[j].b = 2

(***************************************************************************)
(* C18: an exception raised while one branch is processed is caught at the *)
(* boundary of that branch: the pass goes on with the next branch, or with *)
(* the end of the project when the branch was its last, in the scheduled   *)
(* and in the manual pass.                                                 *)
(***************************************************************************)
C18_CaughtAtBranchBoundary ==
    ev.type = "exception" =>
        /\ ev.src = "monitor" => mon[ev.id].pc \in {"branch", "cycle"}
        /\ (/\ ev.src = "check"
            /\ chk[ev.id].b < Len(BranchList(chk[ev.id].project))) =>
               chk[ev.id].pc = "branch"

(***************************************************************************)
(* C19: an exception that escapes the processing of a branch is caught at  *)
(* the boundary of the pass: the manual pass still emits done, and the     *)
(* scheduled monitor stays alive for its later passes instead of ending    *)
(* silently.                                                               *)
(***************************************************************************)
C19_CaughtAtPassBoundary ==
    ev.type = "exception" =>
        /\ ev.src = "check" => chk[ev.id].pc = "finally"
        /\ ev.src = "monitor" => isRunning(mon[ev.id])

C21_MalformedAborts ==
    (\E k \in 1..Len(projects) : Malformed(projects[k])) =>
        /\ RunningMonitors = {} /\ ChecksRunning = {}
        /\ ev.type \notin {"created", "observe", "send"}

(***************************************************************************)
(* C22: a failure of a repository call is local to its unit and skips it:  *)
(* a unit of the scheduled pass whose 'git checkout branch' failed reads   *)
(* no head revision, records nothing and dispatches nothing, so that every *)
(* revision observed for a branch is read from that branch's working tree. *)
(***************************************************************************)
C22_FailureSkipsBranch ==
    (ev.type = "observe" /\ ev.src = "monitor" /\ ev.branch # "")
        => checkedOut = ev.branch

(***************************************************************************)
(* C23: progress of the manual pass: total is the sum over the projects of *)
(* max(1, number of branches); the count of completed units goes up by     *)
(* exactly one at a time, once per branch, never exceeds total, and equals *)
(* total when a pass that was not cancelled comes to its end.              *)
(***************************************************************************)
C23_ProgressAccounting ==
    /\ [](\A j \in 1..MaxChk :
            /\ chk[j].pc \in {"project", "branch", "webhook", "finally"} =>
                   chk[j].count <= chk[j].total
            /\ (chk[j].pc = "finally" /\ ~chk[j].should_stop) =>
                   chk[j].count = chk[j].total)
    /\ [][\A j \in 1..MaxChk :
            (ChkPassActive(chk[j]) /\ chk'[j].count # chk[j].count) =>
                chk'[j].count = chk[j].count + 1]_vars

(***************************************************************************)
(* C24: shutdown waits for the pass in flight: once closeEvent has         *)
(* accepted the close no MonitorWorker and no CheckAllNowWorker is still   *)
(* running, and the calendar thread has been told to stop and has ended.   *)
(***************************************************************************)
C24_CloseWaitsForPasses ==
    pc["gui"] = "closed" =>
        /\ RunningMonitors = {} /\ ChecksRunning = {}
        /\ stop_event /\ pc["sched"] = "exited"

C26_PassIteratesSnapshot ==
    \A i \in 1..MaxMon :
        mon[i].pc \in {"branch", "changes", "webhook"} =>
            /\ mon[i].p <= Len(hist.snap[i])
            /\ mon[i].project = hist.snap[i][mon[i].p]

\* The last-sent map of the process: the map of the MonitorWorker in use.
lastSentTime ==
    IF hist.cur = 0 THEN NoMon.last_sent_times
    ELSE mon[hist.cur].last_sent_times

\* C27: the last-seen map and the last-sent map are changed only by a step of
\* the scheduled pass (a revision observed, a send made by the MonitorWorker
\* in use); the manual pass, with the sends it makes, and every foreground
\* handler leave both maps as they are.
C27_MapsChangedByScheduledPassOnly ==
    [][(lastSeenRevision' # lastSeenRevision \/ lastSentTime' # lastSentTime)
          => /\ ev'.src = "monitor" /\ ev'.id = hist.cur
             /\ ev'.type \in {"observe", "send"}]_vars

\* C28: nothing is silently dropped: a step of a pass that ends a unit (a
\* project left, a branch left, a webhook skipped or sent to) without a
\* successful dispatch emits a log event.
C28_NothingSilentlyDropped ==
    ( /\ ev.src \in {"monitor", "check"}
      /\ ev.type \in {"skip", "observe", "filter", "unit", "exception", "throttled", "send"}
      /\ \/ ev.type \in {"throttled", "send"}
         \/ ev.src = "monitor" /\ mon[ev.id].pc \notin {"changes", "webhook"}
         \/ ev.src = "check" /\ chk[ev.id].pc # "webhook"
      /\ ~(ev.type = "send" /\ ev.res = "ok") )
        => ev.log

\* C29: format_message never returns the empty string, whatever the format
\* selector, the template, the status and the log.
C29_MessageNeverEmpty ==
    ev.type = "format_message" => ev.msg # ""

\* C30: with a non-empty template the result is the template with
\* {project}, {branch}, {commit_message} and {files_changed} substituted,
\* whichever format is selected, 'AI Summary' included.
C30_TemplateOverridesFormat ==
    (ev.type = "format_message" /\ ev.template # "") =>
        ev.msg = Replace(Replace(Replace(Replace(ev.template,
                     "{project}", ev.project_name),
                     "{branch}", ev.branch),
                     "{commit_message}", ev.commits),
                     "{files_changed}", ev.status)

\* C31: stop_monitoring joins the pass before another can start: when it
\* returns no MonitorWorker is running and the reference is cleared; a
\* cleared reference always means that no worker runs, so the test of a
\* following start_monitoring passes and the start goes on to create a worker.
C31_StopJoinsPass ==
    /\ [][(pc["gui"] \in {"stop_monitoring", "stop_wait"} /\ pc'["gui"] = "idle")
             => (monitor_thread' = 0 /\ RunningMonitors' = {})]_vars
    /\ [](monitor_thread = 0 => RunningMonitors = {})
    /\ [][(pc["gui"] = "start_monitoring" /\ pc'["gui"] # "start_monitoring"
             /\ monitor_thread = 0) => pc'["gui"] = "start_new"]_vars

W31_StoppedThenStarting ==
    /\ pc["gui"] = "start_new" /\ monitor_thread = 0
    /\ \E i \in 1..MaxMon : mon[i].pc = "finished" /\ mon[i].last_commit_hashes["main"] # 0

\* C32: a stop request is never lost: from the call of stop() until the worker
\* has terminated, its running flag stays cleared, whatever the worker thread
\* was doing when stop() was called (the flag is what ends the worker, and the
\* caller, blocked in wait(), does not ask again).
C32_StopNeverLost ==
    \A i \in 1..MaxMon :
        ( /\ pc["gui"] \in {"stop_wait", "close_wait"}
          /\ monitor_thread = i
          /\ isRunning(mon[i]) ) => ~mon[i].running

\* C33: a revision whose notification the throttle gate skipped is notified
\* later: no pass that begins once the webhook's frequency window has elapsed
\* leaves the unit as "no new commits" while the head is still that revision.
C33_ThrottledNotifiedLater ==
    ~( /\ ev.type = "observe" /\ ev.src = "monitor" /\ ev.log
       /\ ev.rev # 0 /\ hist.failed[ev.branch] = ev.rev
       /\ \E w \in 1..Len(Webhooks) :
             ~Throttled(mon[ev.id].now, mon[ev.id].last_sent_times[ev.branch][w],
                        Webhooks[w].frequency) )

\* C34: repository queries are isolated per unit: the git commands that give
\* the status and the log of a unit run in that unit's own project path,
\* whatever another worker thread is doing at that moment.
C34_QueriesInOwnPath ==
    (ev.type \in {"filter", "unit"} /\ ev.path # "") => ev.dir = ev.path

\* C35: the revision stored under the key of a named branch is a head
\* revision of that branch: a step that writes the last-seen map writes, for
\* its branch, the head the branch has at that moment.
C35_StoredIsHeadOfBranch ==
    ( /\ ev.type = "observe" /\ ev.src = "monitor"
      /\ ev.branch # "" /\ ev.rev # ev.stored )
        => /\ mon[ev.id].last_commit_hashes[ev.branch] = ev.rev
           /\ ev.rev = head[ev.branch]

\* C36: every message dispatched to a webhook by a pass, scheduled or manual,
\* is formatted with the format selector and the template configured for that
\* webhook.
C36_OwnFormatAndTemplate ==
    (ev.type = "send" /\ ev.src \in {"monitor", "check"}) =>
        /\ ev.fmt = ev.wh.format
        /\ ev.template = ev.wh.template

\* C37: payload selection: the log handed to the formatter is the filtered
\* log when that is non-empty and the raw log otherwise, and likewise the
\* status; the filtered log is the merge lines alone when the merges predicate
\* fires (the commits predicate having fired or not), the whole log when only
\* the commits predicate fires, and a fired tags predicate appends the tags
\* line to it; the filtered status is the lines that end with a configured
\* file type.
C37_PayloadSelection ==
    ev.type = "FilterEval" =>
        LET merges == SelectSeq(ev.commits, LAMBDA l : Contains(Lower(l), MergeWord))
            log == IF MergesFires(ev) THEN merges
                   ELSE IF CommitsFires(ev) THEN ev.commits ELSE <<>>
            filtered_log == IF TagsFires(ev) THEN Append(log, TagsLine) ELSE log
            filtered_status ==
                SelectSeq(ev.status, LAMBDA l :
                    \E t \in {<<".", "c", "p", "p">>, <<".", "h">>} :
                        Contains(ev.filters.filetypes, t) /\ EndsWith(l, t))
        IN /\ ev.arg_commits = IF filtered_log # <<>> THEN filtered_log ELSE ev.commits
           /\ ev.arg_status = IF filtered_status # <<>> THEN filtered_status ELSE ev.status

\* commits, merges and tags all fire on a log of a plain and a merge commit
W37_MergeLinesAndTags ==
    /\ ev.type = "FilterEval"
    /\ CommitsFires(ev) /\ MergesFires(ev) /\ TagsFires(ev)
    /\ Len(ev.commits) = 2
    /\ ev.arg_commits = <<ev.commits[2], TagsLine>>
    /\ FiletypesFires(ev) /\ Len(ev.status) = 2 /\ ev.arg_status = <<CppLine>>

\* C38: loading the configuration never raises and recovers in a fixed order:
\* a main file that is valid JSON gives its validated content; otherwise a
\* .bak file that is valid JSON gives the validated backup content; otherwise
\* the result is a copy of the defaults; and the result always has every
\* top-level key of the defaults and version = CURRENT_CONFIG_VERSION.
ValidatedContent(val) ==
    validate_config(IF val.t = "dict" THEN migrate_config(val).data ELSE val, DEFAULT_CONFIG)

C38_LoadRecoversInOrder ==
    ev.type = "load_config_with_recovery" =>
        /\ ~ev.raised
        /\ ev.data = IF ev.main.kind = "json" THEN ValidatedContent(ev.main.val)
                     ELSE IF ev.bak.kind = "json" THEN ValidatedContent(ev.bak.val)
                     ELSE DEFAULT_CONFIG
        /\ ev.data.t = "dict"
        /\ DOMAIN DEFAULT_CONFIG.d \subseteq DOMAIN ev.data.d
        /\ ev.data.d["version"] = [t |-> "int", n |-> CURRENT_CONFIG_VERSION]

\* C39: saving the configuration is atomic and backed up: at every point of a
\* save, and after a crash between or inside backup_config and
\* atomic_save_json, the configuration file holds the whole previous content
\* or the whole new content; when a save has completed, the .bak file holds
\* what the configuration file held before that save; and config_lock lets
\* one caller at a time be inside save_all or load_all.
C39_AtomicBackedUpSave ==
    ev.type = "config" =>
        /\ \A t \in 1..MaxCallers :
              /\ ev.at[t] \in {"backup_config", "copy2", "atomic_save_json", "json_dump",
                               "os_replace", "saved"}
                    => ev.main \in {ev.before[t], [kind |-> "json", val |-> ev.data[t]]}
              /\ ev.at[t] = "saved"
                    => /\ ev.main = [kind |-> "json", val |-> ev.data[t]]
                       /\ ev.before[t].kind # "none" => ev.bak = ev.before[t]
              /\ ev.at[t] # "idle" <=> ev.config_lock = t
        /\ ev.last.op = "crash"
              => ev.main \in {ev.last.before, [kind |-> "json", val |-> ev.last.data]}

\* the process was killed while json.dump was writing over a configuration
\* that held other projects, and the file still holds them
W39_CrashInsideDump ==
    /\ ev.type = "config"
    /\ ev.last.op = "crash" /\ ev.last.at = "json_dump"
    /\ ev.last.before.kind = "json"
    /\ ev.last.before.val # ev.last.data
    /\ ev.last.before.val.t = "dict"
    /\ "projects" \in DOMAIN ev.last.before.val.d
    /\ ev.main = ev.last.before /\ ev.bak = ev.last.before

================================================================
